---- MODULE Spec2Model ----
(***************************************************************************)
(* Customer Data Platform core: Profile Builder (optimistic locking),      *)
(* Identity Resolver, Stream Processor, Consent Manager and GDPR erasure.  *)
(* One module, several specifications over the same variables: each        *)
(* specification drives one subsystem and leaves the others untouched.     *)
(***************************************************************************)
EXTENDS Integers, Sequences, FiniteSets, TLC

\* ------------------------------------------------------------------ bounds
\* Concurrent update_profile callers of the builder specification.
NCallers == 2
\* Messages on the input topic of the stream specification.
NMsgs == 2
\* Concurrent update_consent callers of the consent specification.
NConsentCallers == 2
\* Successive send calls of the producer specification.
NSends == 2
\* Messages on each raw topic of the ingestion specification.
NRaw == 2

\* ------------------------------------------------------- program constants
\* ProfileBuilder.__init__(max_retries = 3)
max_retries == 3

\* ProcessorConfig as configured here: batch_size (1..500), max_concurrency (1..100)
batch_size == 2
max_concurrency == 2

\* Three stored profiles and room for one created per message.
ProfileIds == 1..(3 + NMsgs)
MsgIds == 1..NMsgs
Callers == 1..NCallers
Types == {"email", "phone", "device_id", "cookie"}
Values == {"a", "b"}
None == "-"
Channels == {"email"}
\* A missing "version" field: profile.get("version", 0) reads it as 0, while
\* the filter {"version": 0} of replace_one does not match a missing field.
NoVersion == -1

\* --------------------------------------------------------------- documents
NoIds == [t \in Types |-> None]
NoConsent == [c \in Channels |-> None]

\* A slot of the profiles collection that holds no document. In a document,
\* ids is "identifiers" when it is a dict type -> value (the resolver's and
\* the builder's shape), arr is "identifiers" when it is an array of
\* {type, value} (the shape of CustomerProfile), idlist is "identifiers_list".
NoDoc ==
    [exists |-> FALSE, version |-> NoVersion, pname |-> "", consent |-> NoConsent,
     total |-> 0, ids |-> NoIds, arr |-> {}, idlist |-> {}, score |-> 0,
     segments |-> {}]

\* An event as the Stream Processor hands it to resolve / update_profile.
\* ids is the event's "identifiers" list in order, age the age in days of
\* its timestamp (0 when the timestamp is absent: now is used).
NoEvent ==
    [source |-> "", consent |-> NoConsent, ids |-> << >>, pname |-> "", age |-> 0]

\* -------------------------------------------------- ProfileBuilder helpers
CONTACT_INFO_AUTHORITY == "crm"

\* _apply_contact_info: CRM owns personal_info; consent is the conjunction of
\* the stored value (default True when the key is missing) and the incoming.
ApplyContactInfoAnySource(doc, ev) ==
    [doc EXCEPT
        !.pname = IF ev.pname # "" THEN ev.pname ELSE @,
        !.consent = [c \in Channels |->
            IF ev.consent[c] = None THEN doc.consent[c]
            ELSE IF (doc.consent[c] = None \/ doc.consent[c] = "T") /\ ev.consent[c] = "T"
                 THEN "T" ELSE "F"]]

ApplyContactInfo(doc, ev) ==
    [doc EXCEPT
        !.pname = IF ev.source = CONTACT_INFO_AUTHORITY /\ ev.pname # ""
                  THEN ev.pname ELSE @,
        !.consent = [c \in Channels |->
            IF ev.consent[c] = None THEN doc.consent[c]
            ELSE IF (doc.consent[c] = None \/ doc.consent[c] = "T") /\ ev.consent[c] = "T"
                 THEN "T" ELSE "F"]]

\* _update_interaction_summary: total_interactions += 1.
UpdateInteractionSummary(doc, ev) ==
    [doc EXCEPT !.total = @ + 1]

\* 100 * exp(-0.693 * days / 14) in units of 1e-4, for the ages the events use.
RecencyE4(age) ==
    CASE age = 0 -> 1000000
      [] age = 14 -> 500074
      [] OTHER -> 250074

Min(a, b) == IF a <= b THEN a ELSE b

\* _update_scores: round(0.55 * recency + 0.45 * min(100, total * 2.5), 2),
\* kept in hundredths.
EngagementScore(total, age) ==
    LET freqE4 == Min(1000000, total * 25000)
        scoreE4 == (55 * RecencyE4(age) + 45 * freqE4) \div 100
    IN  (scoreE4 + 50) \div 100

UpdateScores(doc, ev) ==
    [doc EXCEPT !.score = EngagementScore(doc.total, ev.age)]

\* SEGMENT_THRESHOLDS, in hundredths: low <= score < high.
SegmentLow(name) ==
    CASE name = "highly_engaged" -> 7000
      [] name = "moderately_engaged" -> 4000
      [] name = "at_risk" -> 1500
      [] OTHER -> 0

SegmentHigh(name) ==
    CASE name = "highly_engaged" -> 10000
      [] name = "moderately_engaged" -> 7000
      [] name = "at_risk" -> 4000
      [] OTHER -> 1500

SegmentNames == {"highly_engaged", "moderately_engaged", "at_risk", "dormant"}

\* _update_segments
UpdateSegments(doc) ==
    [doc EXCEPT !.segments =
        {n \in SegmentNames : SegmentLow(n) <= doc.score /\ doc.score < SegmentHigh(n)}]

\* _merge_identifiers: in the event's order, an identifier is added when its
\* type and value are non-empty and the profile holds none of that type.
\* if id_type and id_value and id_type not in existing
AddsIdentifierAnyType(existing, t, v) == t # "" /\ v # ""

AddsIdentifier(existing, t, v) == t # "" /\ v # "" /\ existing[t] = None

RECURSIVE MergeIdentifiersFrom(_, _, _)
MergeIdentifiersFrom(existing, new, i) ==
    IF i > Len(new) THEN existing
    ELSE LET t == new[i][1]
             v == new[i][2]
             nxt == IF AddsIdentifier(existing, t, v)
                    THEN [existing EXCEPT ![t] = v] ELSE existing
         IN  MergeIdentifiersFrom(nxt, new, i + 1)

MergeIdentifiers(doc, new) ==
    [doc EXCEPT !.ids = MergeIdentifiersFrom(doc.ids, new, 1)]

\* existing[id_type] = id_value raises TypeError when the stored
\* "identifiers" is an array (a document written from a CustomerProfile):
\* a type string is never "in" a list of dicts, and a list takes no string
\* index.
MergeIdentifiersRaises(doc, new) ==
    /\ doc.arr # {}
    /\ \E i \in 1..Len(new) : new[i][1] # "" /\ new[i][2] # ""

\* profile.get("version", 0)
ReadVersion(doc) == IF doc.version = NoVersion THEN 0 ELSE doc.version

\* The candidate document update_profile builds from the document it read.
Candidate(doc, ev) ==
    LET p1 == ApplyContactInfo(doc, ev)
        p2 == UpdateInteractionSummary(p1, ev)
        p3 == UpdateScores(p2, ev)
        p4 == UpdateSegments(p3)
        p5 == MergeIdentifiers(p4, ev.ids)
    IN  [p5 EXCEPT !.version = ReadVersion(doc) + 1]

\* ------------------------------------------------------------------- state
VARIABLES
    profiles,      \* the "profiles" collection: profile_id -> document
    profiles0,     \* the collection as it was initially (history, never written)
    writes,        \* per profile, the successful writes made to its document
    task,          \* per caller / message, the position and locals of its coroutine
    mg,            \* the coroutine of an explicit IdentityResolver._merge_profiles
    auditLog,      \* the "identity_audit_log" collection, in insertion order
    topic,         \* the messages of cdp.processed.interactions, by offset
    loop,          \* StreamProcessor._consume_loop: position, batch, offsets
    staging,       \* offsets whose message reached cdp.bigquery.staging
    dlq,           \* offsets whose message reached cdp.dlq
    sem,           \* permits of StreamProcessor._semaphore in use
    shutdown,      \* StreamProcessor._shutdown_event
    consents,      \* the "consents" collection: student_id -> channels
    consentAudit,  \* the "consent_audit_log" collection, in insertion order
    cm,            \* per caller, the coroutine of ConsentManager.update_consent
    mc,            \* per merge, the coroutine of ConsentManager.merge_consent
    mongo,         \* per collection of the primary store, the subjects with records
    ext,           \* per external store, the subjects with records
    er,            \* the coroutine of GDPRDeletionEngine.delete_student
    vf,            \* the coroutine of GDPRDeletionEngine.verify_deletion
    kp,            \* the coroutine of CDPKafkaProducer.send and the two counters
    raw,           \* per ingestion consumer, the payloads of its raw topic
    cs,            \* per ingestion consumer, the coroutine of its run()
    pstore,        \* the profiles collection as MongoProfileStore reads and writes it
    api,           \* per request, the coroutine of profile_api.update_segments
    etl,           \* the coroutine of the running ReverseETLEngine operation
    eng            \* ReverseETLEngine: dedup registry, call counter, calls made, log

builderVars == <<profiles, profiles0, writes, task, mg, auditLog>>
streamVars == <<topic, loop, staging, dlq, sem, shutdown>>
consentVars == <<consents, consentAudit, cm, mc>>
erasureVars == <<mongo, ext, er, vf>>

ingestVars == <<kp, raw, cs>>
servingVars == <<pstore, api, etl, eng>>

vars == <<builderVars, streamVars, consentVars, erasureVars, ingestVars, servingVars>>

IdleTask ==
    [pc |-> "idle", pid |-> 0, ev |-> NoEvent, attempt |-> 0, rv |-> 0,
     cand |-> NoDoc, err |-> "", probe |-> 0, cand_id |-> 0, conf |-> 0,
     nreads |-> 0, nwrites |-> 0, persisted |-> FALSE,
     \* what resolve did for this call: the identifier positions it probed,
     \* its store reads, audit entries and inserts, and how it returned
     probed |-> << >>, nfinds |-> 0, naudit |-> 0, ninsert |-> 0, via |-> "",
     \* the "error" text of the DLQ record published for the message
     dlq_reason |-> << >>,
     \* the position of the call's persisted write among all persisted
     \* update_profile writes (0: none)
     wseq |-> 0]

IdleMerge ==
    [pc |-> "idle", pri |-> 0, sec |-> 0, secDoc |-> NoDoc, priDoc |-> NoDoc]

\* ------------------------------------------------ ProfileBuilder.update_profile
\* The filter {"profile_id": id, "version": version} of replace_one.
ReplaceMatchesAnyVersion(doc, version) == doc.exists

ReplaceMatches(doc, version) == doc.exists /\ doc.version = version

\* result.modified_count of the replace_one
ModifiedCount(doc, version) == IF ReplaceMatches(doc, version) THEN 1 ELSE 0

\* if result.modified_count == 1: return profile
WriteSucceeded(modified) == modified = 1

\* for attempt in range(1, max_retries + 1): whether another attempt follows.
RetryAllowedOneMore(attempt) == attempt <= max_retries

RetryAllowed(attempt) == attempt < max_retries

\* update_profile(profile_id, event) is entered: attempt = 1.
EnterUpdate(t, pid, ev) ==
    [t EXCEPT !.pc = "read", !.pid = pid, !.ev = ev, !.attempt = 1]

\* await self._profiles.find_one({"profile_id": profile_id}), then the
\* candidate document is built from what was read (no suspension in between).
UpdateRead(c) ==
    /\ task[c].pc = "read"
    /\ IF ~profiles[task[c].pid].exists
       THEN task' = [task EXCEPT ![c].pc = "raised", ![c].err = "ValueError",
                                 ![c].nreads = @ + 1]
       ELSE IF MergeIdentifiersRaises(profiles[task[c].pid], task[c].ev.ids)
       THEN task' = [task EXCEPT ![c].pc = "raised", ![c].err = "TypeError",
                                 ![c].nreads = @ + 1]
       ELSE task' = [task EXCEPT
                   ![c].pc = "write",
                   ![c].nreads = @ + 1,
                   ![c].rv = ReadVersion(profiles[task[c].pid]),
                   ![c].cand = Candidate(profiles[task[c].pid], task[c].ev)]
    /\ UNCHANGED <<profiles, profiles0, writes, mg, auditLog>>
    /\ UNCHANGED <<streamVars, consentVars, erasureVars, ingestVars, servingVars>>

\* The update_profile calls whose replace_one has taken effect so far.
PersistedWrites == Cardinality({d \in DOMAIN task : task[d].persisted})

\* await self._profiles.replace_one(filter, profile); modified_count == 1
\* returns the profile, otherwise the loop goes on or OptimisticLockError.
UpdateWrite(c) ==
    /\ task[c].pc = "write"
    /\ LET pid == task[c].pid
           modified == ModifiedCount(profiles[pid], task[c].rv)
       IN  /\ profiles' = IF modified = 1
                          THEN [profiles EXCEPT ![pid] = task[c].cand]
                          ELSE profiles
           /\ writes' = IF modified = 1
                        THEN [writes EXCEPT ![pid] = @ + 1]
                        ELSE writes
           /\ IF WriteSucceeded(modified)
              THEN task' = [task EXCEPT ![c].pc = "returned",
                                        ![c].nwrites = @ + 1,
                                        ![c].persisted = (modified = 1),
                                        ![c].wseq = PersistedWrites + 1]
              ELSE IF RetryAllowed(task[c].attempt)
              THEN task' = [task EXCEPT ![c].pc = "read", ![c].attempt = @ + 1,
                                        ![c].nwrites = @ + 1]
              ELSE task' = [task EXCEPT ![c].pc = "raised",
                                        ![c].err = "OptimisticLockError",
                                        ![c].nwrites = @ + 1]
    /\ UNCHANGED <<profiles0, mg, auditLog>>
    /\ UNCHANGED <<streamVars, consentVars, erasureVars, ingestVars, servingVars>>

\* ------------------------------------------- IdentityResolver._merge_profiles
\* merged_consent: pri.get(k, False) and sec.get(k, False) for every key of
\* either; a key of neither stays absent.
MergedConsent(pri, sec) ==
    [c \in Channels |->
        IF pri[c] = None /\ sec[c] = None THEN None
        ELSE IF pri[c] = "T" /\ sec[c] = "T" THEN "T" ELSE "F"]

\* {*primary["identifiers_list"], *secondary["identifiers_list"]} builds a set
\* of the list entries, which are dicts: it raises TypeError (unhashable)
\* as soon as either list has an entry.
MergedIdsRaises(priDoc, secDoc) == priDoc.idlist # {} \/ secDoc.idlist # {}

\* A caller asks for the merge of secondary into primary.
MergeStart(pri, sec) ==
    /\ mg.pc = "idle"
    /\ pri # sec
    /\ mg' = [mg EXCEPT !.pc = "findSecondary", !.pri = pri, !.sec = sec]
    /\ UNCHANGED <<profiles, profiles0, writes, task, auditLog>>
    /\ UNCHANGED <<streamVars, consentVars, erasureVars, ingestVars, servingVars>>

\* secondary = await find_one({"profile_id": secondary_id})
MergeFindSecondary ==
    /\ mg.pc = "findSecondary"
    /\ mg' = IF profiles[mg.sec].exists
             THEN [mg EXCEPT !.pc = "findPrimary", !.secDoc = profiles[mg.sec]]
             ELSE [mg EXCEPT !.pc = "returned"]
    /\ UNCHANGED <<profiles, profiles0, writes, task, auditLog>>
    /\ UNCHANGED <<streamVars, consentVars, erasureVars, ingestVars, servingVars>>

\* primary = await find_one({"profile_id": primary_id}); merged_ids and
\* merged_consent are computed before the next suspension.
MergeFindPrimary ==
    /\ mg.pc = "findPrimary"
    /\ mg' = IF ~profiles[mg.pri].exists
             THEN [mg EXCEPT !.pc = "returned"]
             ELSE IF MergedIdsRaises(profiles[mg.pri], mg.secDoc)
             THEN [mg EXCEPT !.pc = "raised", !.priDoc = profiles[mg.pri]]
             ELSE [mg EXCEPT !.pc = "update", !.priDoc = profiles[mg.pri]]
    /\ UNCHANGED <<profiles, profiles0, writes, task, auditLog>>
    /\ UNCHANGED <<streamVars, consentVars, erasureVars, ingestVars, servingVars>>

\* await update_one({"profile_id": primary_id}, {"$set": {identifiers_list,
\* consent}}): no version filter and no version bump.
MergeUpdate ==
    /\ mg.pc = "update"
    /\ IF profiles[mg.pri].exists
       THEN /\ profiles' = [profiles EXCEPT
                   ![mg.pri].idlist = mg.priDoc.idlist \cup mg.secDoc.idlist,
                   ![mg.pri].consent = MergedConsent(mg.priDoc.consent, mg.secDoc.consent)]
            /\ writes' = [writes EXCEPT ![mg.pri] = @ + 1]
       ELSE UNCHANGED <<profiles, writes>>
    /\ mg' = [mg EXCEPT !.pc = "delete"]
    /\ UNCHANGED <<profiles0, task, auditLog>>
    /\ UNCHANGED <<streamVars, consentVars, erasureVars, ingestVars, servingVars>>

\* await delete_one({"profile_id": secondary_id})
MergeDelete ==
    /\ mg.pc = "delete"
    /\ profiles' = [profiles EXCEPT ![mg.sec] = NoDoc]
    /\ mg' = [mg EXCEPT !.pc = "audit"]
    /\ UNCHANGED <<profiles0, writes, task, auditLog>>
    /\ UNCHANGED <<streamVars, consentVars, erasureVars, ingestVars, servingVars>>

\* await self._audit_log.insert_one({"action": "merge", ...})
MergeAudit ==
    /\ mg.pc = "audit"
    /\ auditLog' = Append(auditLog, [action |-> "merge", a |-> mg.pri, b |-> mg.sec])
    /\ mg' = [mg EXCEPT !.pc = "returned"]
    /\ UNCHANGED <<profiles, profiles0, writes, task>>
    /\ UNCHANGED <<streamVars, consentVars, erasureVars, ingestVars, servingVars>>

\* ------------------------------------------- the subsystems a specification
\* does not drive rest in these states
StreamIdle ==
    /\ topic = << >>
    /\ loop = [pc |-> "stopped", fetched |-> 0, committed |-> 0, commits |-> 0,
               polls |-> 0, batch |-> {}, sigpc |-> "",
               consumer |-> "stopped", producer |-> "stopped"]
    /\ staging = {} /\ dlq = {}
    /\ sem = 0
    /\ shutdown = FALSE

ConsentIdle ==
    /\ consents = << >>
    /\ consentAudit = << >>
    /\ cm = << >>
    /\ mc = << >>

ErasureIdle ==
    /\ mongo = << >>
    /\ ext = << >>
    /\ er = [pc |-> "idle", student |-> "", step |-> 0, attempt |-> 0,
             results |-> << >>, tried |-> << >>, waits |-> << >>, raised |-> 0,
             tombstoned |-> FALSE, fully_deleted |-> FALSE, audited |-> 0]
    /\ vf = << >>

IngestIdle ==
    /\ kp = << >>
    /\ raw = << >>
    /\ cs = << >>

ServingIdle ==
    /\ pstore = << >>
    /\ api = << >>
    /\ etl = << >>
    /\ eng = << >>

\* ----------------------------------------------------- builder specification
\* Events the concurrent callers pass to update_profile.
BuilderEvents ==
    { [source |-> "website", consent |-> [c \in Channels |-> "F"],
       ids |-> << <<"phone", "b">> >>, pname |-> "n2", age |-> 0],
      [source |-> "crm", consent |-> NoConsent,
       ids |-> << >>, pname |-> "n3", age |-> 14],
      [source |-> "app", consent |-> [c \in Channels |-> "T"],
       ids |-> << <<"email", "b">>, <<"", "a">> >>, pname |-> "", age |-> 28] }

\* {i["type"]: i["value"] for i in identifiers}: the last entry of a type wins.
DictOf(idseq) ==
    [t \in Types |->
        LET S == {i \in 1..Len(idseq) : idseq[i][1] = t}
        IN  IF S = {} THEN None
            ELSE idseq[CHOOSE i \in S : \A j \in S : j <= i][2]]

\* A document as IdentityResolver._create_profile inserts it: no version field.
CreatedDoc(idseq, consent, pname) ==
    [exists |-> TRUE, version |-> NoVersion, pname |-> pname, consent |-> consent,
     total |-> 0, ids |-> DictOf(idseq), arr |-> {},
     idlist |-> {idseq[i] : i \in 1..Len(idseq)},
     score |-> 0, segments |-> {}]

\* A document that carries a version: v earlier builder writes.
VersionedDoc(v, ids, consent, pname) ==
    [exists |-> TRUE, version |-> v, pname |-> pname, consent |-> consent,
     total |-> v, ids |-> ids, arr |-> {}, idlist |-> {},
     score |-> EngagementScore(v, 0),
     segments |-> {n \in SegmentNames :
                     SegmentLow(n) <= EngagementScore(v, 0)
                     /\ EngagementScore(v, 0) < SegmentHigh(n)}]

\* A document as MongoProfileStore.upsert_profile writes it from a
\* CustomerProfile: identifiers is an array, there is no "version" field.
StoreDoc(pairs, pname) ==
    [exists |-> TRUE, version |-> NoVersion, pname |-> pname, consent |-> NoConsent,
     total |-> 0, ids |-> NoIds, arr |-> pairs, idlist |-> {},
     score |-> 0, segments |-> {}]

\* The writes a stored document has seen: an insert, or one per version.
InitialWrites(doc) ==
    IF ~doc.exists THEN 0 ELSE IF doc.version = NoVersion THEN 1 ELSE doc.version

InitBuilder ==
    /\ \E c1 \in {"T", None}, c2 \in {"T", "F"}, created \in BOOLEAN :
         profiles = [p \in ProfileIds |->
            CASE p = 1 -> IF created
                          THEN CreatedDoc(<< <<"email", "a">> >>,
                                          [c \in Channels |-> c1], "n1")
                          ELSE VersionedDoc(1, [NoIds EXCEPT !["email"] = "a"],
                                            [c \in Channels |-> c1], "n1")
              [] p = 2 -> VersionedDoc(1, [NoIds EXCEPT !["phone"] = "b"],
                                       [c \in Channels |-> c2], "n2")
              [] OTHER -> NoDoc]
    /\ profiles0 = profiles
    /\ writes = [p \in ProfileIds |-> InitialWrites(profiles[p])]
    /\ task = [c \in Callers |-> IdleTask]
    /\ mg = IdleMerge
    /\ auditLog = << >>
    /\ StreamIdle /\ ConsentIdle /\ ErasureIdle /\ IngestIdle /\ ServingIdle

\* A caller enters update_profile(profile_id, event). Callers are
\* interchangeable: they enter in index order.
StartUpdate(c, pid, ev) ==
    /\ task[c].pc = "idle"
    /\ \A d \in Callers : d < c => task[d].pc # "idle"
    /\ task' = [task EXCEPT ![c] = EnterUpdate(task[c], pid, ev)]
    /\ UNCHANGED <<profiles, profiles0, writes, mg, auditLog>>
    /\ UNCHANGED <<streamVars, consentVars, erasureVars, ingestVars, servingVars>>

\* Callers aim at the stored profile 1 or at the missing profile 3; the merge
\* runs between the stored profiles 1 and 2, in either direction.
NextBuilder ==
    \/ \E c \in Callers, pid \in {1, 3}, ev \in BuilderEvents : StartUpdate(c, pid, ev)
    \/ \E c \in Callers : UpdateRead(c)
    \/ \E c \in Callers : UpdateWrite(c)
    \/ \E pri \in {1, 2}, sec \in {1, 2} : MergeStart(pri, sec)
    \/ MergeFindSecondary
    \/ MergeFindPrimary
    \/ MergeUpdate
    \/ MergeDelete
    \/ MergeAudit

SpecBuilder == InitBuilder /\ [][NextBuilder]_vars

\* ------------------------------------------- scores and segments of a write
\* update_profile on a profile with any number of earlier interactions up to
\* MaxInteractions, for events of the ages the recency table covers.
MaxInteractions == 41

InitSegments ==
    /\ \E v \in 1..MaxInteractions :
         profiles = [p \in ProfileIds |->
            IF p = 1
            THEN VersionedDoc(v, [NoIds EXCEPT !["email"] = "a"], NoConsent, "n1")
            ELSE NoDoc]
    /\ profiles0 = profiles
    /\ writes = [p \in ProfileIds |-> InitialWrites(profiles[p])]
    /\ task = [c \in Callers |-> IdleTask]
    /\ mg = IdleMerge
    /\ auditLog = << >>
    /\ StreamIdle /\ ConsentIdle /\ ErasureIdle /\ IngestIdle /\ ServingIdle

NextSegments ==
    \/ \E c \in Callers, ev \in BuilderEvents : StartUpdate(c, 1, ev)
    \/ \E c \in Callers : UpdateRead(c)
    \/ \E c \in Callers : UpdateWrite(c)

SpecSegments == InitSegments /\ [][NextSegments]_vars

\* ------------------------------------------------- IdentityResolver.resolve
DETERMINISTIC_FIELDS == {"email", "phone", "device_id", "session_id", "salesforce_id"}
VALID_SOURCES == {"website", "app", "crm", "email", "whatsapp"}

\* CONFIDENCE_AUTO_MERGE = 0.85, in units of 1/12000
ConfidenceAutoMerge == 10200

\* if field in DETERMINISTIC_FIELDS and value
ProbedAnyType(id) == id[2] # ""

Probed(id) == id[1] \in DETERMINISTIC_FIELDS /\ id[2] # ""

\* The next identifier at or after position i that _deterministic_match
\* probes; Len + 1 when there is none.
RECURSIVE NextProbe(_, _)
NextProbe(idseq, i) ==
    IF i > Len(idseq) THEN i
    ELSE IF Probed(idseq[i]) THEN i ELSE NextProbe(idseq, i + 1)

\* The filter {"identifiers.<field>": value}: a dict-shaped "identifiers"
\* with that key and value (an array of {type, value} has no such path).
DocMatches(doc, id) ==
    doc.exists /\ id[1] \in Types /\ doc.ids[id[1]] = id[2]

\* find_one returns the first match in natural (insertion) order, 0 for None.
FindOneByIdentifier(id) ==
    LET S == {p \in ProfileIds : DocMatches(profiles[p], id)}
    IN  IF S = {} THEN 0 ELSE CHOOSE p \in S : \A q \in S : p <= q

\* id_values = {i["value"] for i in identifiers if i.get("value")}
IdValues(idseq) == {idseq[i][2] : i \in {j \in 1..Len(idseq) : idseq[j][2] # ""}}

\* if not personal_info.get("name") or not id_values: return None
ProbabilisticApplies(ev) == ev.pname # "" /\ IdValues(ev.ids) # {}

\* str.lower() on the names of the model
Lower(a) == IF a = "Alice Brown" THEN "alice brown" ELSE a

\* SequenceMatcher(None, a.lower(), b.lower()).ratio() in percent, for the
\* names of the model: equal names 1.0, "n1" against "n2" 2*1/4, a missing
\* candidate name ("") 0. The event's name is never empty here.
NameScore(a, b) ==
    IF a = "" \/ b = "" THEN 0 ELSE IF Lower(a) = Lower(b) THEN 100 ELSE 50

\* confidence = 0.6 * name_score + 0.4 * overlap, in units of 1/12000, with
\* cand_ids the values of the candidate's identifiers_list.
Confidence(doc, ev) ==
    LET ev_ids == IdValues(ev.ids)
        cand_ids == {pr[2] : pr \in {x \in doc.idlist : x[2] # ""}}
        union == Cardinality(ev_ids \cup cand_ids)
        inter == Cardinality(ev_ids \cap cand_ids)
    IN  72 * NameScore(ev.pname, doc.pname)
        + (4800 * inter) \div (IF union > 1 THEN union ELSE 1)

\* find({"identifiers": {"$elemMatch": {"value": {"$in": id_values}}}}):
\* documents whose "identifiers" is an array with such an element.
CandidateIds(ev) ==
    {p \in ProfileIds :
        profiles[p].exists /\ \E pr \in profiles[p].arr : pr[2] \in IdValues(ev.ids)}

\* best: the first candidate in cursor order of the highest confidence, 0 for None.
BestCandidate(ev) ==
    LET C == CandidateIds(ev)
    IN  IF C = {} THEN 0
        ELSE CHOOSE p \in C :
               \A q \in C :
                 \/ Confidence(profiles[q], ev) < Confidence(profiles[p], ev)
                 \/ Confidence(profiles[q], ev) = Confidence(profiles[p], ev) /\ p <= q

\* profile_id = str(uuid.uuid4()): an id no document has ever had.
NewProfileId ==
    CHOOSE p \in ProfileIds :
        /\ writes[p] = 0
        /\ \A q \in ProfileIds : writes[q] = 0 => p <= q

\* Where resolve suspends next once the probes from position i on are due:
\* at a probe, at the candidate query, or at the insert of a new profile.
AfterProbes(t, i) ==
    LET n == NextProbe(t.ev.ids, i)
    IN  IF n <= Len(t.ev.ids) THEN [t EXCEPT !.pc = "probe", !.probe = n]
        ELSE IF ProbabilisticApplies(t.ev) THEN [t EXCEPT !.pc = "candidates"]
        ELSE [t EXCEPT !.pc = "insert"]

\* _deterministic_match: doc = await find_one({"identifiers.<field>": value});
\* a hit returns its profile_id and resolve returns it to _process_one,
\* which enters update_profile.
Probe(m) ==
    /\ task[m].pc = "probe"
    /\ LET hit == FindOneByIdentifier(task[m].ev.ids[task[m].probe])
           t == [task[m] EXCEPT !.probed = Append(@, task[m].probe),
                                !.nfinds = @ + 1]
       IN  task' = [task EXCEPT ![m] =
                IF hit # 0
                THEN EnterUpdate([t EXCEPT !.via = "deterministic"], hit, t.ev)
                ELSE AfterProbes(t, t.probe + 1)]
    /\ UNCHANGED <<profiles, profiles0, writes, mg, auditLog>>
    /\ UNCHANGED <<topic, loop, staging, dlq, sem, shutdown>>
    /\ UNCHANGED <<consentVars, erasureVars, ingestVars, servingVars>>

\* _probabilistic_match: the candidates are fetched and scored; resolve then
\* returns the match (confidence >= 0.85), flags it for review, or creates.
Candidates(m) ==
    /\ task[m].pc = "candidates"
    /\ LET best == BestCandidate(task[m].ev)
           conf == IF best = 0 THEN 0 ELSE Confidence(profiles[best], task[m].ev)
           t == [task[m] EXCEPT !.nfinds = @ + 1, !.cand_id = best, !.conf = conf]
       IN  task' = [task EXCEPT ![m] =
                IF best = 0 THEN [t EXCEPT !.pc = "insert"]
                ELSE IF conf >= ConfidenceAutoMerge
                THEN EnterUpdate([t EXCEPT !.via = "probabilistic"], best, t.ev)
                ELSE [t EXCEPT !.pc = "flag"]]
    /\ UNCHANGED <<profiles, profiles0, writes, mg, auditLog>>
    /\ UNCHANGED <<topic, loop, staging, dlq, sem, shutdown>>
    /\ UNCHANGED <<consentVars, erasureVars, ingestVars, servingVars>>

\* _flag_for_review: await self._audit_log.insert_one({"action": "review_flag"})
FlagForReview(m) ==
    /\ task[m].pc = "flag"
    /\ auditLog' = Append(auditLog,
           [action |-> "review_flag", a |-> task[m].cand_id, b |-> task[m].conf])
    /\ task' = [task EXCEPT ![m].pc = "insert", ![m].naudit = @ + 1]
    /\ UNCHANGED <<profiles, profiles0, writes, mg>>
    /\ UNCHANGED <<topic, loop, staging, dlq, sem, shutdown>>
    /\ UNCHANGED <<consentVars, erasureVars, ingestVars, servingVars>>

\* _create_profile: await self._profiles.insert_one(doc)
InsertProfile(m) ==
    /\ task[m].pc = "insert"
    /\ LET id == NewProfileId
       IN  /\ profiles' = [profiles EXCEPT ![id] =
                  CreatedDoc(task[m].ev.ids, task[m].ev.consent, task[m].ev.pname)]
           /\ writes' = [writes EXCEPT ![id] = 1]
           /\ task' = [task EXCEPT ![m].pc = "auditCreate", ![m].pid = id,
                                     ![m].ninsert = @ + 1]
    /\ UNCHANGED <<profiles0, mg, auditLog>>
    /\ UNCHANGED <<topic, loop, staging, dlq, sem, shutdown>>
    /\ UNCHANGED <<consentVars, erasureVars, ingestVars, servingVars>>

\* _create_profile: await self._audit_log.insert_one({"action": "create"});
\* resolve returns the new profile_id and update_profile is entered.
AuditCreate(m) ==
    /\ task[m].pc = "auditCreate"
    /\ auditLog' = Append(auditLog, [action |-> "create", a |-> task[m].pid, b |-> 0])
    /\ task' = [task EXCEPT ![m] =
           EnterUpdate([task[m] EXCEPT !.naudit = @ + 1, !.via = "created"],
                       task[m].pid, task[m].ev)]
    /\ UNCHANGED <<profiles, profiles0, writes, mg>>
    /\ UNCHANGED <<topic, loop, staging, dlq, sem, shutdown>>
    /\ UNCHANGED <<consentVars, erasureVars, ingestVars, servingVars>>

\* ------------------------------------------------------------ StreamProcessor
\* await asyncio.gather(*tasks, return_exceptions=True) returns once every
\* task of the batch has finished, by returning or by raising.
GatherCompleteAny == \E m \in loop.batch : task[m].pc \in {"done", "failed"}

GatherComplete == \A m \in loop.batch : task[m].pc \in {"done", "failed"}

\* batch = await self._consumer.getmany(...): up to batch_size of the
\* messages after the last fetched one; one task is created per message.
Poll(n) ==
    /\ loop.pc = "poll"
    /\ ~shutdown
    /\ n <= batch_size
    /\ loop.fetched + n <= Len(topic)
    /\ LET batch == (loop.fetched + 1)..(loop.fetched + n)
       IN  /\ task' = [m \in DOMAIN task |->
                  IF m \in batch
                  THEN [IdleTask EXCEPT !.pc = "spawned", !.ev = topic[m]]
                  ELSE task[m]]
           /\ loop' = IF n = 0 THEN loop
                      ELSE [loop EXCEPT !.pc = "gather", !.fetched = @ + n,
                                        !.polls = @ + 1, !.batch = batch]
    /\ UNCHANGED <<profiles, profiles0, writes, mg, auditLog>>
    /\ UNCHANGED <<topic, staging, dlq, sem, shutdown>>
    /\ UNCHANGED <<consentVars, erasureVars, ingestVars, servingVars>>

\* _process_one up to its first suspension: the semaphore is taken, the
\* source is validated (ValueError goes to the except branch, which sends to
\* the DLQ) and resolve runs up to its first query.
TaskBegin(m) ==
    /\ task[m].pc = "spawned"
    /\ sem < max_concurrency
    /\ sem' = sem + 1
    /\ task' = [task EXCEPT ![m] =
           IF task[m].ev.source \notin VALID_SOURCES
           THEN [task[m] EXCEPT !.pc = "raised", !.err = "ValueError"]
           ELSE AfterProbes(task[m], 1)]
    /\ UNCHANGED <<profiles, profiles0, writes, mg, auditLog>>
    /\ UNCHANGED <<topic, loop, staging, dlq, shutdown>>
    /\ UNCHANGED <<consentVars, erasureVars, ingestVars, servingVars>>

\* await self._producer.send_and_wait(BQ_STAGING_TOPIC, ...): delivered, or
\* the producer raises and the except branch sends to the DLQ.
Publish(m, ok) ==
    /\ task[m].pc = "returned"
    /\ IF ok
       THEN /\ staging' = staging \cup {m}
            /\ task' = [task EXCEPT ![m].pc = "done"]
            /\ sem' = sem - 1
       ELSE /\ task' = [task EXCEPT ![m].pc = "raised", ![m].err = "KafkaError"]
            /\ UNCHANGED <<staging, sem>>
    /\ UNCHANGED <<profiles, profiles0, writes, mg, auditLog>>
    /\ UNCHANGED <<topic, loop, dlq, shutdown>>
    /\ UNCHANGED <<consentVars, erasureVars, ingestVars, servingVars>>

\* str(exc) of the exception _process_one caught, as the pieces of the
\* formatted text: f"Unknown event source: {source}" for the source check,
\* otherwise the text of the error raised further down.
ErrorText(t) ==
    IF t.ev.source \notin VALID_SOURCES
    THEN <<"Unknown event source: ", t.ev.source>>
    ELSE <<t.err>>

\* except Exception: await self._send_to_dlq(msg, str(exc)): delivered, or
\* the producer raises again and the exception leaves the task.
SendToDlq(m, ok) ==
    /\ task[m].pc = "raised"
    /\ IF ok
       THEN /\ dlq' = dlq \cup {m}
            /\ task' = [task EXCEPT ![m].pc = "done",
                                    ![m].dlq_reason = ErrorText(task[m])]
       ELSE /\ task' = [task EXCEPT ![m].pc = "failed"]
            /\ UNCHANGED dlq
    /\ sem' = sem - 1
    /\ UNCHANGED <<profiles, profiles0, writes, mg, auditLog>>
    /\ UNCHANGED <<topic, loop, staging, shutdown>>
    /\ UNCHANGED <<consentVars, erasureVars, ingestVars, servingVars>>

\* gather returns
GatherDone ==
    /\ loop.pc = "gather"
    /\ GatherComplete
    /\ loop' = [loop EXCEPT !.pc = "commit"]
    /\ UNCHANGED <<builderVars, topic, staging, dlq, sem, shutdown>>
    /\ UNCHANGED <<consentVars, erasureVars, ingestVars, servingVars>>

\* await self._consumer.commit(): the offsets of everything fetched
Commit ==
    /\ loop.pc = "commit"
    /\ loop' = [loop EXCEPT !.pc = "poll", !.committed = loop.fetched,
                            !.commits = @ + 1]
    /\ UNCHANGED <<builderVars, topic, staging, dlq, sem, shutdown>>
    /\ UNCHANGED <<consentVars, erasureVars, ingestVars, servingVars>>

\* _request_shutdown (SIGTERM / SIGINT); sigpc records where the loop was
\* when the signal arrived.
RequestShutdown ==
    /\ ~shutdown
    /\ loop.pc # "stopped"
    /\ shutdown' = TRUE
    /\ loop' = [loop EXCEPT !.sigpc = loop.pc]
    /\ UNCHANGED <<builderVars, topic, staging, dlq, sem>>
    /\ UNCHANGED <<consentVars, erasureVars, ingestVars, servingVars>>

\* while not self._shutdown_event.is_set(): the loop ends and start()
\* goes on to its finally block.
LoopExit ==
    /\ loop.pc = "poll"
    /\ shutdown
    /\ loop' = [loop EXCEPT !.pc = "stopConsumer"]
    /\ UNCHANGED <<builderVars, topic, staging, dlq, sem, shutdown>>
    /\ UNCHANGED <<consentVars, erasureVars, ingestVars, servingVars>>

\* finally: await self._consumer.stop()
StopConsumer ==
    /\ loop.pc = "stopConsumer"
    /\ loop' = [loop EXCEPT !.pc = "stopProducer", !.consumer = "stopped"]
    /\ UNCHANGED <<builderVars, topic, staging, dlq, sem, shutdown>>
    /\ UNCHANGED <<consentVars, erasureVars, ingestVars, servingVars>>

\* await self._producer.stop()
StopProducer ==
    /\ loop.pc = "stopProducer"
    /\ loop' = [loop EXCEPT !.pc = "stopped", !.producer = "stopped"]
    /\ UNCHANGED <<builderVars, topic, staging, dlq, sem, shutdown>>
    /\ UNCHANGED <<consentVars, erasureVars, ingestVars, servingVars>>

\* Events on the input topic.
StreamEvents ==
    { [source |-> "website", consent |-> NoConsent,
       ids |-> << <<"email", "a">>, <<"phone", "b">> >>, pname |-> "", age |-> 0],
      [source |-> "sms", consent |-> NoConsent,
       ids |-> << <<"email", "a">> >>, pname |-> "", age |-> 0],
      [source |-> "crm", consent |-> [c \in Channels |-> "F"],
       ids |-> << <<"phone", "a">> >>, pname |-> "n1", age |-> 14],
      [source |-> "app", consent |-> NoConsent,
       ids |-> << <<"email", "a">>, <<"phone", "a">> >>, pname |-> "", age |-> 0] }

\* Stored initially: two versioned profiles of the builder's shape and one
\* written by the profile store; no identifier is shared.
InitStream ==
    /\ profiles = [p \in ProfileIds |->
          CASE p = 1 -> VersionedDoc(1, [NoIds EXCEPT !["email"] = "a"], NoConsent, "n1")
            [] p = 2 -> VersionedDoc(1, [NoIds EXCEPT !["phone"] = "b"], NoConsent, "n2")
            [] p = 3 -> StoreDoc({<<"phone", "a">>}, "n2")
            [] OTHER -> NoDoc]
    /\ profiles0 = profiles
    /\ writes = [p \in ProfileIds |-> InitialWrites(profiles[p])]
    /\ task = [m \in MsgIds |-> IdleTask]
    /\ mg = IdleMerge
    /\ auditLog = << >>
    /\ topic \in [MsgIds -> StreamEvents]
    /\ loop = [pc |-> "poll", fetched |-> 0, committed |-> 0, commits |-> 0,
               polls |-> 0, batch |-> {}, sigpc |-> "",
               consumer |-> "started", producer |-> "started"]
    /\ staging = {} /\ dlq = {}
    /\ sem = 0
    /\ shutdown = FALSE
    /\ ConsentIdle /\ ErasureIdle /\ IngestIdle /\ ServingIdle

NextStream ==
    \/ \E n \in 0..batch_size : Poll(n)
    \/ \E m \in MsgIds : TaskBegin(m)
    \/ \E m \in MsgIds : Probe(m)
    \/ \E m \in MsgIds : Candidates(m)
    \/ \E m \in MsgIds : FlagForReview(m)
    \/ \E m \in MsgIds : InsertProfile(m)
    \/ \E m \in MsgIds : AuditCreate(m)
    \/ \E m \in MsgIds : UpdateRead(m)
    \/ \E m \in MsgIds : UpdateWrite(m)
    \/ \E m \in MsgIds, ok \in BOOLEAN : Publish(m, ok)
    \/ \E m \in MsgIds, ok \in BOOLEAN : SendToDlq(m, ok)
    \/ GatherDone
    \/ Commit
    \/ RequestShutdown
    \/ LoopExit
    \/ StopConsumer
    \/ StopProducer

SpecStream == InitStream /\ [][NextStream]_vars

\* The processor on a topic of events that either match a stored profile at
\* their first identifier or carry an invalid source: what a shutdown has
\* to wait for is the same, whatever the resolver does for an event.
ShutdownEvents ==
    { [source |-> "website", consent |-> NoConsent,
       ids |-> << <<"email", "a">> >>, pname |-> "", age |-> 0],
      [source |-> "sms", consent |-> NoConsent,
       ids |-> << <<"email", "a">> >>, pname |-> "", age |-> 0] }

InitShutdown ==
    /\ profiles = [p \in ProfileIds |->
          IF p = 1
          THEN VersionedDoc(1, [NoIds EXCEPT !["email"] = "a"], NoConsent, "n1")
          ELSE NoDoc]
    /\ profiles0 = profiles
    /\ writes = [p \in ProfileIds |-> InitialWrites(profiles[p])]
    /\ task = [m \in MsgIds |-> IdleTask]
    /\ mg = IdleMerge
    /\ auditLog = << >>
    /\ topic \in [MsgIds -> ShutdownEvents]
    /\ loop = [pc |-> "poll", fetched |-> 0, committed |-> 0, commits |-> 0,
               polls |-> 0, batch |-> {}, sigpc |-> "",
               consumer |-> "started", producer |-> "started"]
    /\ staging = {} /\ dlq = {}
    /\ sem = 0
    /\ shutdown = FALSE
    /\ ConsentIdle /\ ErasureIdle /\ IngestIdle /\ ServingIdle

\* The steps of the processor other than the arrival of a batch and of a
\* signal: the event loop runs every coroutine that can go on, and every
\* awaited store or bus call returns or raises.
ShutdownProgress ==
    \/ \E m \in MsgIds : TaskBegin(m)
    \/ \E m \in MsgIds : Probe(m)
    \/ \E m \in MsgIds : UpdateRead(m)
    \/ \E m \in MsgIds : UpdateWrite(m)
    \/ \E m \in MsgIds, ok \in BOOLEAN : Publish(m, ok)
    \/ \E m \in MsgIds, ok \in BOOLEAN : SendToDlq(m, ok)
    \/ GatherDone
    \/ Commit
    \/ LoopExit
    \/ StopConsumer
    \/ StopProducer

NextShutdown ==
    \/ \E n \in 0..batch_size : Poll(n)
    \/ RequestShutdown
    \/ ShutdownProgress

SpecShutdown == InitShutdown /\ [][NextShutdown]_vars /\ WF_vars(ShutdownProgress)

\* ----------------------------------------------- StreamProcessor.start
\* await self._consumer.start(): the consumer is started, or the call raises
\* and the exception leaves start() (the call is outside the try block).
StartConsumer(ok) ==
    /\ loop.pc = "startConsumer"
    /\ loop' = IF ok
               THEN [loop EXCEPT !.pc = "startProducer", !.consumer = "started"]
               ELSE [loop EXCEPT !.pc = "raised"]
    /\ UNCHANGED <<builderVars, topic, staging, dlq, sem, shutdown>>
    /\ UNCHANGED <<consentVars, erasureVars, ingestVars, servingVars>>

\* await self._producer.start(): also outside the try block.
StartProducer(ok) ==
    /\ loop.pc = "startProducer"
    /\ loop' = IF ok
               THEN [loop EXCEPT !.pc = "poll", !.producer = "started"]
               ELSE [loop EXCEPT !.pc = "raised"]
    /\ UNCHANGED <<builderVars, topic, staging, dlq, sem, shutdown>>
    /\ UNCHANGED <<consentVars, erasureVars, ingestVars, servingVars>>

\* await self._consumer.getmany(...) or await self._consumer.commit() raises:
\* the exception leaves _consume_loop and start() enters its finally block.
ConsumeLoopRaises ==
    /\ loop.pc \in {"poll", "commit"}
    /\ loop' = [loop EXCEPT !.pc = "stopConsumer"]
    /\ UNCHANGED <<builderVars, topic, staging, dlq, sem, shutdown>>
    /\ UNCHANGED <<consentVars, erasureVars, ingestVars, servingVars>>

\* finally: await self._consumer.stop() raises: the exception leaves the
\* finally block, self._producer.stop() is not reached.
StopConsumerRaises ==
    /\ loop.pc = "stopConsumer"
    /\ loop' = [loop EXCEPT !.pc = "raised"]
    /\ UNCHANGED <<builderVars, topic, staging, dlq, sem, shutdown>>
    /\ UNCHANGED <<consentVars, erasureVars, ingestVars, servingVars>>

\* await self._producer.stop() raises.
StopProducerRaises ==
    /\ loop.pc = "stopProducer"
    /\ loop' = [loop EXCEPT !.pc = "raised"]
    /\ UNCHANGED <<builderVars, topic, staging, dlq, sem, shutdown>>
    /\ UNCHANGED <<consentVars, erasureVars, ingestVars, servingVars>>

\* start() from its first line: both clients are constructed, none started.
InitLifecycle ==
    /\ profiles = [p \in ProfileIds |->
          IF p = 1
          THEN VersionedDoc(1, [NoIds EXCEPT !["email"] = "a"], NoConsent, "n1")
          ELSE NoDoc]
    /\ profiles0 = profiles
    /\ writes = [p \in ProfileIds |-> InitialWrites(profiles[p])]
    /\ task = [m \in MsgIds |-> IdleTask]
    /\ mg = IdleMerge
    /\ auditLog = << >>
    /\ topic \in [MsgIds -> ShutdownEvents]
    /\ loop = [pc |-> "startConsumer", fetched |-> 0, committed |-> 0,
               commits |-> 0, polls |-> 0, batch |-> {}, sigpc |-> "",
               consumer |-> "new", producer |-> "new"]
    /\ staging = {} /\ dlq = {}
    /\ sem = 0
    /\ shutdown = FALSE
    /\ ConsentIdle /\ ErasureIdle /\ IngestIdle /\ ServingIdle

NextLifecycle ==
    \/ \E ok \in BOOLEAN : StartConsumer(ok)
    \/ \E ok \in BOOLEAN : StartProducer(ok)
    \/ NextShutdown
    \/ ConsumeLoopRaises
    \/ StopConsumerRaises
    \/ StopProducerRaises

SpecLifecycle == InitLifecycle /\ [][NextLifecycle]_vars

\* ------------------------------------------------ resolver specification
\* resolve(event) is entered: it runs up to its first query. Callers are
\* interchangeable: they enter in index order.
ResolveStart(m, ev) ==
    /\ task[m].pc = "idle"
    /\ \A d \in MsgIds : d < m => task[d].pc # "idle"
    /\ task' = [task EXCEPT ![m] = AfterProbes([IdleTask EXCEPT !.ev = ev], 1)]
    /\ UNCHANGED <<profiles, profiles0, writes, mg, auditLog>>
    /\ UNCHANGED <<streamVars, consentVars, erasureVars, ingestVars, servingVars>>

\* resolve has returned task[m].pid to its caller.
Resolved(m) == task[m].pc = "read"

\* Events handed to resolve.
ResolveEvents ==
    { [source |-> "website", consent |-> NoConsent,
       ids |-> << <<"email", "s@x.edu">> >>, pname |-> "", age |-> 0],
      [source |-> "app", consent |-> NoConsent,
       ids |-> << <<"cookie", "c1">>, <<"phone", "">>, <<"device_id", "D1">>,
                  <<"email", "s@x.edu">> >>, pname |-> "", age |-> 0],
      [source |-> "crm", consent |-> NoConsent,
       ids |-> << <<"phone", "+49123456789">>, <<"device_id", "D1">> >>,
       pname |-> "alice brown", age |-> 0],
      [source |-> "crm", consent |-> NoConsent,
       ids |-> << <<"phone", "+49123456789">> >>,
       pname |-> "Alice Brown", age |-> 0],
      [source |-> "app", consent |-> NoConsent,
       ids |-> << <<"device_id", "D2">> >>, pname |-> "", age |-> 0] }

\* Stored initially: a profile the resolver created for (email, s@x.edu),
\* and the profile of Alice Brown with (phone, +49123456789), written either
\* by the resolver (_create_profile) or by the profile store (upsert_profile).
InitResolve ==
    /\ \E shape \in {"resolver", "store"} :
         profiles = [p \in ProfileIds |->
            CASE p = 1 -> CreatedDoc(<< <<"email", "s@x.edu">> >>, NoConsent, "")
              [] p = 2 -> IF shape = "resolver"
                          THEN CreatedDoc(<< <<"phone", "+49123456789">> >>,
                                          NoConsent, "Alice Brown")
                          ELSE StoreDoc({<<"phone", "+49123456789">>}, "Alice Brown")
              [] OTHER -> NoDoc]
    /\ profiles0 = profiles
    /\ writes = [p \in ProfileIds |-> InitialWrites(profiles[p])]
    /\ task = [m \in MsgIds |-> IdleTask]
    /\ mg = IdleMerge
    /\ auditLog = << >>
    /\ StreamIdle /\ ConsentIdle /\ ErasureIdle /\ IngestIdle /\ ServingIdle

NextResolve ==
    \/ \E m \in MsgIds, ev \in ResolveEvents : ResolveStart(m, ev)
    \/ \E m \in MsgIds : Probe(m)
    \/ \E m \in MsgIds : Candidates(m)
    \/ \E m \in MsgIds : FlagForReview(m)
    \/ \E m \in MsgIds : InsertProfile(m)
    \/ \E m \in MsgIds : AuditCreate(m)

SpecResolve == InitResolve /\ [][NextResolve]_vars

\* ------------------------------------------- resolving after a merge
\* The merge of secondary into primary has run to its end.
MergeCompleted ==
    /\ mg.pc = "returned"
    /\ \E i \in DOMAIN auditLog :
          auditLog[i] = [action |-> "merge", a |-> mg.pri, b |-> mg.sec]

\* Events that carry the identifier the secondary held: alone, or before or
\* after an identifier of the primary, with or without a name.
AfterMergeEvents ==
    { [source |-> "app", consent |-> NoConsent,
       ids |-> << <<"phone", "b">> >>, pname |-> "", age |-> 0],
      [source |-> "crm", consent |-> NoConsent,
       ids |-> << <<"phone", "b">>, <<"email", "a">> >>, pname |-> "n2", age |-> 0],
      [source |-> "website", consent |-> NoConsent,
       ids |-> << <<"email", "a">>, <<"phone", "b">> >>, pname |-> "", age |-> 0] }

\* resolve(event) is called once the merge has completed.
ResolveAfterMerge(m, ev) ==
    /\ MergeCompleted
    /\ ResolveStart(m, ev)

\* Stored initially: the primary with (email, a) and the secondary with
\* (phone, b), each written by the builder or by the profile store; neither
\* has an identifiers_list entry.
InitMergeResolve ==
    /\ \E s1 \in {"builder", "store"}, s2 \in {"builder", "store"} :
         profiles = [p \in ProfileIds |->
            CASE p = 1 -> IF s1 = "builder"
                          THEN VersionedDoc(1, [NoIds EXCEPT !["email"] = "a"],
                                            NoConsent, "n1")
                          ELSE StoreDoc({<<"email", "a">>}, "n1")
              [] p = 2 -> IF s2 = "builder"
                          THEN VersionedDoc(1, [NoIds EXCEPT !["phone"] = "b"],
                                            NoConsent, "n2")
                          ELSE StoreDoc({<<"phone", "b">>}, "n2")
              [] OTHER -> NoDoc]
    /\ profiles0 = profiles
    /\ writes = [p \in ProfileIds |-> InitialWrites(profiles[p])]
    /\ task = [m \in MsgIds |-> IdleTask]
    /\ mg = IdleMerge
    /\ auditLog = << >>
    /\ StreamIdle /\ ConsentIdle /\ ErasureIdle /\ IngestIdle /\ ServingIdle

NextMergeResolve ==
    \/ MergeStart(1, 2)
    \/ MergeFindSecondary
    \/ MergeFindPrimary
    \/ MergeUpdate
    \/ MergeDelete
    \/ MergeAudit
    \/ \E m \in MsgIds, ev \in AfterMergeEvents : ResolveAfterMerge(m, ev)
    \/ \E m \in MsgIds : Probe(m)
    \/ \E m \in MsgIds : Candidates(m)
    \/ \E m \in MsgIds : FlagForReview(m)
    \/ \E m \in MsgIds : InsertProfile(m)
    \/ \E m \in MsgIds : AuditCreate(m)

SpecMergeResolve == InitMergeResolve /\ [][NextMergeResolve]_vars

\* ------------------------------------------------- ConsentManager.update_consent
Students == {"s1", "s2"}
ConsentCallers == 1..NConsentCallers

\* CHANNELS, in the order of the list: the model keeps its first two entries
\* (no code of the ConsentManager tells one channel from another).
CHANNELS == <<"email", "whatsapp">>
ChannelSet == {CHANNELS[i] : i \in DOMAIN CHANNELS}

\* The channels a caller may pass: the known ones and one outside of them.
RequestedChannels == ChannelSet \cup {"fax"}

\* get_consent of a student without a record: ChannelConsent with no entry.
NoConsentDoc == [exists |-> FALSE, channels |-> [c \in ChannelSet |-> None]]

\* The consents collection before any call of the model: s1 has consented
\* to email, s2 has no record.
InitialConsents ==
    [s \in Students |->
        IF s = "s1" THEN [exists |-> TRUE, channels |-> [c \in ChannelSet |-> "T"]]
        ELSE NoConsentDoc]

IdleConsentCall ==
    [pc |-> "idle", student |-> "", channel |-> "", value |-> "", old |-> None,
     err |-> ""]

\* update_consent is entered: an unknown channel raises ValueError before
\* anything is read.
ConsentStart(c, student, channel, value) ==
    /\ cm[c].pc = "idle"
    /\ \A d \in ConsentCallers : d < c => cm[d].pc # "idle"
    /\ cm' = [cm EXCEPT ![c] =
          IF channel \notin ChannelSet
          THEN [@ EXCEPT !.pc = "raised", !.err = "ValueError", !.student = student,
                         !.channel = channel, !.value = value]
          ELSE [@ EXCEPT !.pc = "get", !.student = student, !.channel = channel,
                         !.value = value]]
    /\ UNCHANGED <<consents, consentAudit, mc>>
    /\ UNCHANGED <<builderVars, streamVars, erasureVars, ingestVars, servingVars>>

\* existing = await self.get_consent(student_id); old_value is the stored
\* value of the channel, None without an entry.
ConsentGet(c) ==
    /\ cm[c].pc = "get"
    /\ cm' = [cm EXCEPT ![c].pc = "upsert",
                        ![c].old = consents[cm[c].student].channels[cm[c].channel]]
    /\ UNCHANGED <<consents, consentAudit, mc>>
    /\ UNCHANGED <<builderVars, streamVars, erasureVars, ingestVars, servingVars>>

\* await self._consents.update_one(..., {"$set": {channels.<channel>: entry}},
\* upsert=True): stored, or the store raises and nothing is written.
ConsentUpsert(c, ok) ==
    /\ cm[c].pc = "upsert"
    /\ IF ok
       THEN /\ consents' = [consents EXCEPT
                  ![cm[c].student].exists = TRUE,
                  ![cm[c].student].channels[cm[c].channel] = cm[c].value]
            /\ cm' = [cm EXCEPT ![c].pc = "audit"]
       ELSE /\ cm' = [cm EXCEPT ![c].pc = "raised", ![c].err = "StoreError"]
            /\ UNCHANGED consents
    /\ UNCHANGED <<consentAudit, mc>>
    /\ UNCHANGED <<builderVars, streamVars, erasureVars, ingestVars, servingVars>>

\* await self._audit_log.insert_one(audit_entry): appended, or the insert
\* raises and update_consent raises with it.
ConsentAuditOnChange(c, ok) ==
    /\ cm[c].pc = "audit"
    /\ IF ok
       THEN /\ consentAudit' = IF cm[c].old = cm[c].value THEN consentAudit
                  ELSE Append(consentAudit,
                         [student |-> cm[c].student, channel |-> cm[c].channel,
                          old_value |-> cm[c].old, new_value |-> cm[c].value])
            /\ cm' = [cm EXCEPT ![c].pc = "returned"]
       ELSE /\ cm' = [cm EXCEPT ![c].pc = "raised", ![c].err = "AuditError"]
            /\ UNCHANGED consentAudit
    /\ UNCHANGED <<consents, mc>>
    /\ UNCHANGED <<builderVars, streamVars, erasureVars, ingestVars, servingVars>>

ConsentAudit(c, ok) ==
    /\ cm[c].pc = "audit"
    /\ IF ok
       THEN /\ consentAudit' = Append(consentAudit,
                  [student |-> cm[c].student, channel |-> cm[c].channel,
                   old_value |-> cm[c].old, new_value |-> cm[c].value])
            /\ cm' = [cm EXCEPT ![c].pc = "returned"]
       ELSE /\ cm' = [cm EXCEPT ![c].pc = "raised", ![c].err = "AuditError"]
            /\ UNCHANGED consentAudit
    /\ UNCHANGED <<consents, mc>>
    /\ UNCHANGED <<builderVars, streamVars, erasureVars, ingestVars, servingVars>>

BuilderIdle ==
    /\ profiles = [p \in ProfileIds |-> NoDoc]
    /\ profiles0 = profiles
    /\ writes = [p \in ProfileIds |-> 0]
    /\ task = << >>
    /\ mg = IdleMerge
    /\ auditLog = << >>

InitConsent ==
    /\ consents = InitialConsents
    /\ consentAudit = << >>
    /\ cm = [c \in ConsentCallers |-> IdleConsentCall]
    /\ mc = << >>
    /\ BuilderIdle /\ StreamIdle /\ ErasureIdle /\ IngestIdle /\ ServingIdle

NextConsent ==
    \/ \E c \in ConsentCallers, s \in Students, ch \in RequestedChannels,
          v \in {"T", "F"} : ConsentStart(c, s, ch, v)
    \/ \E c \in ConsentCallers : ConsentGet(c)
    \/ \E c \in ConsentCallers, ok \in BOOLEAN : ConsentUpsert(c, ok)
    \/ \E c \in ConsentCallers, ok \in BOOLEAN : ConsentAudit(c, ok)

SpecConsent == InitConsent /\ [][NextConsent]_vars

\* -------------------------------------------------- ConsentManager.merge_consent
\* Two merges run on two pairs of records with the same content, in opposite
\* directions: merge 1 is merge_consent(a1, b1), merge 2 is
\* merge_consent(b2, a2), where a2 and b2 start as copies of a1 and b1.
MergeIds == {1, 2}
MergeStudents == {"a1", "b1", "a2", "b2"}
MergeArgs == [m \in MergeIds |-> IF m = 1 THEN <<"a1", "b1">> ELSE <<"b2", "a2">>]

\* The records a student can have: none, or a document with at least one
\* channel entry (update_consent, the only writer, always sets one).
ConsentRecords ==
    {NoConsentDoc} \cup
    {[exists |-> TRUE, channels |-> f] :
        f \in {g \in [ChannelSet -> {None, "T", "F"}] : \E c \in ChannelSet : g[c] # None}}

IdleMergeConsent ==
    [pc |-> "idle", primary |-> "", secondary |-> "", p |-> NoConsentDoc.channels,
     s |-> NoConsentDoc.channels, i |-> 0, old |-> None, err |-> "",
     \* the two records as they were when merge_consent was entered
     p0 |-> NoConsentDoc, s0 |-> NoConsentDoc]

\* merged = p_consented and s_consented, a missing entry counting as False
MergedValuePrimaryWins(p, s, ch) == IF p[ch] = "T" THEN "T" ELSE "F"

MergedValue(p, s, ch) == IF p[ch] = "T" /\ s[ch] = "T" THEN "T" ELSE "F"

\* if p_entry is None or p_entry.consented != merged
NeedsUpdateWhenMissing(p, s, ch) == p[ch] = None

NeedsUpdate(p, s, ch) == p[ch] = None \/ p[ch] # MergedValue(p, s, ch)

\* for channel in CHANNELS: the position of the first channel from i on for
\* which update_consent is called, Len(CHANNELS) + 1 when there is none.
\* The iterations in between run without suspension.
RECURSIVE NextUpdate(_, _, _)
NextUpdate(p, s, i) ==
    IF i > Len(CHANNELS) THEN i
    ELSE IF NeedsUpdate(p, s, CHANNELS[i]) THEN i
    ELSE NextUpdate(p, s, i + 1)

\* merge_consent after the channel before position i is done.
ContinueMerge(r, i) ==
    LET j == NextUpdate(r.p, r.s, i)
    IN  [r EXCEPT !.i = j, !.pc = IF j > Len(CHANNELS) THEN "delete" ELSE "updateGet"]

\* merge_consent(primary_id, secondary_id) is entered.
MergeConsentStart(m, primary, secondary) ==
    /\ mc[m].pc = "idle"
    /\ primary # secondary
    /\ mc' = [mc EXCEPT ![m].pc = "getPrimary", ![m].primary = primary,
                        ![m].secondary = secondary,
                        ![m].p0 = consents[primary], ![m].s0 = consents[secondary]]
    /\ UNCHANGED <<consents, consentAudit, cm>>
    /\ UNCHANGED <<builderVars, streamVars, erasureVars, ingestVars, servingVars>>

\* primary = await self.get_consent(primary_id)
MergeConsentGetPrimary(m) ==
    /\ mc[m].pc = "getPrimary"
    /\ mc' = [mc EXCEPT ![m].pc = "getSecondary",
                        ![m].p = consents[mc[m].primary].channels]
    /\ UNCHANGED <<consents, consentAudit, cm>>
    /\ UNCHANGED <<builderVars, streamVars, erasureVars, ingestVars, servingVars>>

\* secondary = await self.get_consent(secondary_id), then the loop runs up
\* to its first update_consent.
MergeConsentGetSecondary(m) ==
    /\ mc[m].pc = "getSecondary"
    /\ mc' = [mc EXCEPT ![m] =
                 ContinueMerge([@ EXCEPT !.s = consents[mc[m].secondary].channels], 1)]
    /\ UNCHANGED <<consents, consentAudit, cm>>
    /\ UNCHANGED <<builderVars, streamVars, erasureVars, ingestVars, servingVars>>

\* update_consent(primary_id, channel, merged, ...) called by the loop:
\* existing = await self.get_consent(student_id)
MergeConsentUpdateGet(m) ==
    /\ mc[m].pc = "updateGet"
    /\ mc' = [mc EXCEPT ![m].pc = "updateUpsert",
                        ![m].old = consents[mc[m].primary].channels[CHANNELS[mc[m].i]]]
    /\ UNCHANGED <<consents, consentAudit, cm>>
    /\ UNCHANGED <<builderVars, streamVars, erasureVars, ingestVars, servingVars>>

\* its update_one(..., upsert=True): stored, or the store raises and
\* merge_consent raises with it.
MergeConsentUpdateUpsert(m, ok) ==
    /\ mc[m].pc = "updateUpsert"
    /\ LET ch == CHANNELS[mc[m].i]
       IN  IF ok
           THEN /\ consents' = [consents EXCEPT
                      ![mc[m].primary].exists = TRUE,
                      ![mc[m].primary].channels[ch] = MergedValue(mc[m].p, mc[m].s, ch)]
                /\ mc' = [mc EXCEPT ![m].pc = "updateAudit"]
           ELSE /\ mc' = [mc EXCEPT ![m].pc = "raised", ![m].err = "StoreError"]
                /\ UNCHANGED consents
    /\ UNCHANGED <<consentAudit, cm>>
    /\ UNCHANGED <<builderVars, streamVars, erasureVars, ingestVars, servingVars>>

\* its audit insert_one, then the loop runs up to its next update_consent or
\* to the delete.
MergeConsentUpdateAudit(m, ok) ==
    /\ mc[m].pc = "updateAudit"
    /\ LET ch == CHANNELS[mc[m].i]
       IN  IF ok
           THEN /\ consentAudit' = Append(consentAudit,
                      [student |-> mc[m].primary, channel |-> ch,
                       old_value |-> mc[m].old,
                       new_value |-> MergedValue(mc[m].p, mc[m].s, ch)])
                /\ mc' = [mc EXCEPT ![m] = ContinueMerge(@, mc[m].i + 1)]
           ELSE /\ mc' = [mc EXCEPT ![m].pc = "raised", ![m].err = "AuditError"]
                /\ UNCHANGED consentAudit
    /\ UNCHANGED <<consents, cm>>
    /\ UNCHANGED <<builderVars, streamVars, erasureVars, ingestVars, servingVars>>

\* await self._consents.delete_one({"student_id": secondary_id})
MergeConsentDelete(m, ok) ==
    /\ mc[m].pc = "delete"
    /\ IF ok
       THEN /\ consents' = [consents EXCEPT ![mc[m].secondary] = NoConsentDoc]
            /\ mc' = [mc EXCEPT ![m].pc = "returned"]
       ELSE /\ mc' = [mc EXCEPT ![m].pc = "raised", ![m].err = "StoreError"]
            /\ UNCHANGED consents
    /\ UNCHANGED <<consentAudit, cm>>
    /\ UNCHANGED <<builderVars, streamVars, erasureVars, ingestVars, servingVars>>

\* The consent dict of a profile that holds, for the channels of the
\* profile model, what consent record r holds.
ProfileConsentOf(r) == [c \in Channels |-> r.channels[c]]

\* Two consent records A and B, stored twice in the consents collection and
\* once as the consent of profiles 1 and 2 (documents as the builder writes
\* them, with no identifiers_list entry).
InitConsentMerge ==
    /\ \E A \in ConsentRecords, B \in ConsentRecords :
         /\ consents = [st \in MergeStudents |-> IF st \in {"a1", "a2"} THEN A ELSE B]
         /\ profiles = [q \in ProfileIds |->
                IF q = 1 THEN VersionedDoc(1, [NoIds EXCEPT !["email"] = "a"],
                                           ProfileConsentOf(A), "n1")
                ELSE IF q = 2 THEN VersionedDoc(1, [NoIds EXCEPT !["phone"] = "b"],
                                                ProfileConsentOf(B), "n2")
                ELSE NoDoc]
    /\ profiles0 = profiles
    /\ writes = [q \in ProfileIds |-> 0]
    /\ task = << >>
    /\ mg = IdleMerge
    /\ auditLog = << >>
    /\ consentAudit = << >>
    /\ cm = << >>
    /\ mc = [m \in MergeIds |-> IdleMergeConsent]
    /\ StreamIdle /\ ErasureIdle /\ IngestIdle /\ ServingIdle

NextConsentMerge ==
    \/ \E m \in MergeIds : MergeConsentStart(m, MergeArgs[m][1], MergeArgs[m][2])
    \/ \E m \in MergeIds : MergeConsentGetPrimary(m)
    \/ \E m \in MergeIds : MergeConsentGetSecondary(m)
    \/ \E m \in MergeIds : MergeConsentUpdateGet(m)
    \/ \E m \in MergeIds, ok \in BOOLEAN : MergeConsentUpdateUpsert(m, ok)
    \/ \E m \in MergeIds, ok \in BOOLEAN : MergeConsentUpdateAudit(m, ok)
    \/ \E m \in MergeIds, ok \in BOOLEAN : MergeConsentDelete(m, ok)
    \/ \E pri \in {1, 2}, sec \in {1, 2} : MergeStart(pri, sec)
    \/ MergeFindSecondary
    \/ MergeFindPrimary
    \/ MergeUpdate
    \/ MergeDelete
    \/ MergeAudit

SpecConsentMerge == InitConsentMerge /\ [][NextConsentMerge]_vars

\* ------------------------------- merge_consent with concurrent revocations
\* merge_consent("a1", "b1") runs while callers revoke consent of either
\* student through update_consent(student, channel, False, ...).
\* The records start with no entry, or with an entry for the first channel.
RaceRecords == {r \in ConsentRecords : r.channels[CHANNELS[2]] = None}

InitConsentRace ==
    /\ \E A \in RaceRecords, B \in RaceRecords :
         consents = [st \in MergeStudents |->
                        IF st = "a1" THEN A ELSE IF st = "b1" THEN B
                        ELSE NoConsentDoc]
    /\ consentAudit = << >>
    /\ cm = [c \in ConsentCallers |-> IdleConsentCall]
    /\ mc = [m \in MergeIds |-> IdleMergeConsent]
    /\ BuilderIdle /\ StreamIdle /\ ErasureIdle /\ IngestIdle /\ ServingIdle

NextConsentRace ==
    \/ MergeConsentStart(1, "a1", "b1")
    \/ MergeConsentGetPrimary(1)
    \/ MergeConsentGetSecondary(1)
    \/ MergeConsentUpdateGet(1)
    \/ \E ok \in BOOLEAN : MergeConsentUpdateUpsert(1, ok)
    \/ \E ok \in BOOLEAN : MergeConsentUpdateAudit(1, ok)
    \/ \E ok \in BOOLEAN : MergeConsentDelete(1, ok)
    \/ \E c \in ConsentCallers, s \in {"a1", "b1"}, ch \in ChannelSet :
          ConsentStart(c, s, ch, "F")
    \/ \E c \in ConsentCallers : ConsentGet(c)
    \/ \E c \in ConsentCallers, ok \in BOOLEAN : ConsentUpsert(c, ok)
    \/ \E c \in ConsentCallers, ok \in BOOLEAN : ConsentAudit(c, ok)

SpecConsentRace == InitConsentRace /\ [][NextConsentRace]_vars

\* ------------------------------------------ GDPRDeletionEngine.delete_student
\* MAX_RETRIES of gdpr_deletion.py
MAX_RETRIES == 3

\* The deleters in the order delete_student runs them.
Deleters == <<"mongodb", "bigquery", "pinecone", "vertex_ai", "kafka", "salesforce">>

\* The collections _delete_from_mongodb goes through, in order.
ErasedCollections == <<"profiles", "events", "consents", "consent_audit_log", "segments">>

\* The collections of the primary store that hold records of a subject.
MongoCollections ==
    {"profiles", "events", "consents", "consent_audit_log", "segments",
     "identity_audit_log", "deletion_audit", "salesforce_mappings"}

\* The stores outside of the primary store that the deleters empty:
\* warehouse, vector index and feature store.
ExtStores == {"bigquery", "pinecone", "vertex_ai"}

IdleErasure ==
    [pc |-> "idle", student |-> "", step |-> 0, attempt |-> 0,
     \* report.store_results, and the stores in the order of their first attempt
     results |-> << >>, tried |-> << >>,
     \* the asyncio.sleep waits of the current _execute_with_retry, in seconds
     \* and how many of its attempts raised
     waits |-> << >>, raised |-> 0,
     \* audited counts the reports inserted into deletion_audit
     tombstoned |-> FALSE, fully_deleted |-> FALSE, audited |-> 0]

\* The first k collections of _delete_from_mongodb.
ErasedPrefix(k) == {ErasedCollections[i] : i \in 1..k}

\* The primary store after deleter `name` ran for subject s and got through
\* its first k collections (all of them when it returned).
MongoAfter(name, s, k) ==
    [coll \in MongoCollections |->
        IF \/ name = "mongodb" /\ coll \in ErasedPrefix(k)
           \/ name = "salesforce" /\ coll = "salesforce_mappings" /\ k > 0
        THEN mongo[coll] \ {s} ELSE mongo[coll]]

\* The external stores after deleter `name` returned for subject s.
ExtAfter(name, s) ==
    [st \in ExtStores |-> IF st = name THEN ext[st] \ {s} ELSE ext[st]]

IdleVerify ==
    [pc |-> "idle", student |-> "", store_checks |-> << >>, all_clear |-> TRUE,
     audited |-> 0]

\* delete_student(student_id) is entered.
ErasureStart(s) ==
    /\ er.pc = "idle"
    /\ er' = [er EXCEPT !.pc = "run", !.student = s, !.step = 1, !.attempt = 1]
    /\ UNCHANGED <<mongo, ext, vf>>
    /\ UNCHANGED <<builderVars, streamVars, consentVars, ingestVars, servingVars>>

\* if attempt < MAX_RETRIES: whether a failed attempt is followed by a
\* sleep and another attempt.
AnotherAttemptOneMore(attempt) == attempt <= MAX_RETRIES

AnotherAttempt(attempt) == attempt < MAX_RETRIES

\* await asyncio.sleep(2**attempt)
BackoffSeconds(attempt) == 2 ^ attempt

\* The StoreResult of _execute_with_retry: StoreResult(store, deleted=success)
\* from the attempt that returned, or StoreResult(store, deleted=False,
\* error="max retries exceeded") below the loop. attempts and waits record
\* the attempts made and the sleeps taken for it.
StoreResult(e, deleted) ==
    [store |-> Deleters[e.step], deleted |-> deleted,
     error |-> IF deleted THEN None ELSE "max retries exceeded",
     attempts |-> e.attempt, waits |-> e.waits, raised |-> e.raised]

\* The state of delete_student once the current store has its StoreResult.
NextStoreStopOnFailure(e, deleted) ==
    [e EXCEPT !.results = Append(@, StoreResult(e, deleted)),
              !.attempt = 1,
              !.waits = << >>,
              !.raised = 0,
              !.step = @ + 1,
              !.pc = IF e.step = Len(Deleters) \/ ~deleted THEN "audit" ELSE "run"]

NextStore(e, deleted) ==
    [e EXCEPT !.results = Append(@, StoreResult(e, deleted)),
              !.attempt = 1,
              !.waits = << >>,
              !.raised = 0,
              !.step = @ + 1,
              !.pc = IF e.step = Len(Deleters) THEN "audit" ELSE "run"]

\* _execute_with_retry: one attempt of the current deleter. It returns True
\* (ok), or raises after k of its collections were already deleted and the
\* loop sleeps before its next attempt; after MAX_RETRIES failed attempts
\* the result is deleted=False.
ErasureAttempt(ok, k) ==
    /\ er.pc = "run"
    /\ LET name == Deleters[er.step]
           e == [er EXCEPT !.tried = IF er.attempt = 1 THEN Append(@, name) ELSE @,
                           !.raised = IF ok THEN @ ELSE @ + 1]
       IN  /\ k <= Len(ErasedCollections)
           /\ ok => k = Len(ErasedCollections)
           /\ ~ok => k < Len(ErasedCollections) /\ (name # "mongodb" => k = 0)
           /\ mongo' = MongoAfter(name, er.student, k)
           /\ ext' = IF ok THEN ExtAfter(name, er.student) ELSE ext
           /\ er' = IF ok
                    THEN [NextStore(e, TRUE) EXCEPT
                             !.tombstoned = (@ \/ name = "kafka")]
                    ELSE IF AnotherAttempt(er.attempt)
                    THEN [e EXCEPT !.attempt = @ + 1,
                                   !.waits = Append(@, BackoffSeconds(er.attempt))]
                    ELSE NextStore(e, FALSE)
    /\ UNCHANGED vf
    /\ UNCHANGED <<builderVars, streamVars, consentVars, ingestVars, servingVars>>

\* report.fully_deleted = all(r.deleted for r in report.store_results)
FullyDeletedAny(results) == \E i \in 1..Len(results) : results[i].deleted

FullyDeleted(results) == \A i \in 1..Len(results) : results[i].deleted

\* report.fully_deleted = all(r.deleted ...); await self._audit.insert_one(
\* {"student_id": student_id, "action": "delete", ...}); return report
ErasureAudit ==
    /\ er.pc = "audit"
    /\ mongo' = [mongo EXCEPT !["deletion_audit"] = @ \cup {er.student}]
    /\ er' = [er EXCEPT !.pc = "returned",
                        !.fully_deleted = FullyDeleted(er.results),
                        !.audited = @ + 1]
    /\ UNCHANGED ext
    /\ UNCHANGED vf
    /\ UNCHANGED <<builderVars, streamVars, consentVars, ingestVars, servingVars>>

\* Initially every subject has records in the stores; the resolver's audit
\* log holds review-flag snapshots of their events or none.
InitErasure ==
    /\ \E flagged \in {{}, Students} :
         mongo = [coll \in MongoCollections |->
                    IF coll = "deletion_audit" THEN {}
                    ELSE IF coll = "identity_audit_log" THEN flagged
                    ELSE Students]
    /\ ext = [st \in ExtStores |-> Students]
    /\ er = IdleErasure
    /\ vf = IdleVerify
    /\ BuilderIdle /\ StreamIdle /\ ConsentIdle /\ IngestIdle /\ ServingIdle

NextErasure ==
    \/ \E s \in Students : ErasureStart(s)
    \/ \E ok \in BOOLEAN, k \in 0..5 : ErasureAttempt(ok, k)
    \/ ErasureAudit

SpecErasure == InitErasure /\ [][NextErasure]_vars

\* ------------------------------------------ GDPRDeletionEngine.verify_deletion
\* The collections verify_deletion counts documents in.
VerifiedCollections == {"profiles", "events", "consents", "segments"}

\* The stores outside of the primary store verify_deletion queries.
VerifiedStores == {"bigquery", "pinecone"}

\* result.store_checks: per checked store, whether it holds nothing of s.
StoreChecks(s) ==
    [st \in {"mongodb"} \cup VerifiedStores |->
        IF st = "mongodb" THEN \A coll \in VerifiedCollections : s \notin mongo[coll]
        ELSE s \notin ext[st]]

\* result.all_clear = all(result.store_checks.values())
AllClear(checks) == \A st \in DOMAIN checks : checks[st]

\* verify_deletion(student_id) is entered, after a delete_student returned.
VerifyStart(s) ==
    /\ er.pc = "returned"
    /\ vf.pc = "idle"
    /\ vf' = [vf EXCEPT !.pc = "check", !.student = s]
    /\ UNCHANGED <<mongo, ext, er>>
    /\ UNCHANGED <<builderVars, streamVars, consentVars, ingestVars, servingVars>>

\* The count_documents calls on the primary store, then (without another
\* suspension) the BigQuery and Pinecone queries and all_clear.
VerifyCheck ==
    /\ vf.pc = "check"
    /\ vf' = [vf EXCEPT !.pc = "audit",
                        !.store_checks = StoreChecks(vf.student),
                        !.all_clear = AllClear(StoreChecks(vf.student))]
    /\ UNCHANGED <<mongo, ext, er>>
    /\ UNCHANGED <<builderVars, streamVars, consentVars, ingestVars, servingVars>>

\* await self._audit.insert_one({"action": "verify_deletion", ...}); return
VerifyAudit ==
    /\ vf.pc = "audit"
    /\ mongo' = [mongo EXCEPT !["deletion_audit"] = @ \cup {vf.student}]
    /\ vf' = [vf EXCEPT !.pc = "returned", !.audited = @ + 1]
    /\ UNCHANGED <<ext, er>>
    /\ UNCHANGED <<builderVars, streamVars, consentVars, ingestVars, servingVars>>

NextVerify ==
    \/ \E s \in Students : ErasureStart(s)
    \/ \E ok \in BOOLEAN, k \in 0..5 : ErasureAttempt(ok, k)
    \/ ErasureAudit
    \/ \E s \in Students : VerifyStart(s)
    \/ VerifyCheck
    \/ VerifyAudit

SpecVerify == InitErasure /\ [][NextVerify]_vars

\* Every awaited deleter returns or raises and every asyncio.sleep ends, so
\* a running _execute_with_retry always gets to its next attempt.
SpecErasureLive ==
    SpecErasure /\ WF_vars(\E ok \in BOOLEAN, k \in 0..5 : ErasureAttempt(ok, k))

\* --------------------------------------------------- CDPKafkaProducer.send
\* MAX_RETRIES of kafka_producer.py (KAFKA_PRODUCER_MAX_RETRIES, default 5)
KAFKA_PRODUCER_MAX_RETRIES == 5

\* BASE_BACKOFF_S of kafka_producer.py (default 0.5), in milliseconds
BASE_BACKOFF_MS == 500

\* Topics the callers publish to.
Topics == {"cdp.processed.interactions", "cdp.raw.whatsapp"}

NoCount == [t \in Topics |-> 0]

\* produced is EVENTS_PRODUCED and errors is PRODUCE_ERRORS, per topic;
\* calls counts the send calls made, waits are the sleeps of the current
\* call in milliseconds, produced0 and errors0 the counters as they were
\* when the current call was entered.
IdleProducer ==
    [pc |-> "idle", topic |-> "", attempt |-> 0, waits |-> << >>, calls |-> 0,
     produced |-> NoCount, errors |-> NoCount,
     produced0 |-> NoCount, errors0 |-> NoCount]

\* for attempt in range(1, MAX_RETRIES + 1): whether another attempt follows
SendRetryAllowedOneMore(attempt) == attempt <= KAFKA_PRODUCER_MAX_RETRIES

SendRetryAllowed(attempt) == attempt < KAFKA_PRODUCER_MAX_RETRIES

\* backoff = BASE_BACKOFF_S * (2 ** (attempt - 1))
Backoff(attempt) == BASE_BACKOFF_MS * (2 ^ (attempt - 1))

\* send(topic, value, key) is entered; the calls follow one another.
SendStart(t) ==
    /\ kp.pc \in {"idle", "returned", "raised"}
    /\ kp.calls < NSends
    /\ kp' = [kp EXCEPT !.pc = "attempt", !.topic = t, !.attempt = 1,
                        !.waits = << >>, !.calls = @ + 1,
                        !.produced0 = kp.produced, !.errors0 = kp.errors]
    /\ UNCHANGED <<raw, cs>>
    /\ UNCHANGED <<builderVars, streamVars, consentVars, erasureVars, servingVars>>

\* await self._producer.send_and_wait(...): delivered, the success counter
\* is incremented and send returns; or it raises and the error counter is
\* incremented.
SendAttempt(ok) ==
    /\ kp.pc = "attempt"
    /\ kp' = IF ok
             THEN [kp EXCEPT !.pc = "returned", !.produced[kp.topic] = @ + 1]
             ELSE [kp EXCEPT !.pc = "sleep", !.errors[kp.topic] = @ + 1]
    /\ UNCHANGED <<raw, cs>>
    /\ UNCHANGED <<builderVars, streamVars, consentVars, erasureVars, servingVars>>

\* await asyncio.sleep(backoff) in the except branch, then the next attempt
\* or, below the loop, raise RuntimeError.
SendSleep ==
    /\ kp.pc = "sleep"
    /\ kp' = [kp EXCEPT !.waits = Append(@, Backoff(kp.attempt)),
                        !.attempt = IF SendRetryAllowed(kp.attempt) THEN @ + 1 ELSE @,
                        !.pc = IF SendRetryAllowed(kp.attempt) THEN "attempt"
                               ELSE "raised"]
    /\ UNCHANGED <<raw, cs>>
    /\ UNCHANGED <<builderVars, streamVars, consentVars, erasureVars, servingVars>>

InitProducer ==
    /\ kp = IdleProducer
    /\ raw = << >>
    /\ cs = << >>
    /\ BuilderIdle /\ StreamIdle /\ ConsentIdle /\ ErasureIdle /\ ServingIdle

NextProducer ==
    \/ \E t \in Topics : SendStart(t)
    \/ \E ok \in BOOLEAN : SendAttempt(ok)
    \/ SendSleep

SpecProducer == InitProducer /\ [][NextProducer]_vars

\* ------------------------------ ClickstreamConsumer.run / MobileAppConsumer.run
Consumers == {"clickstream", "mobile_app"}

\* What a message of a raw topic holds: JSON that passes the raw schema,
\* JSON that fails it (ValidationError), bytes that are no JSON, or (for the
\* mobile topic) a valid event whose event_type is not in MOBILE_EVENT_TYPES.
Payloads == {"valid", "invalid", "garbled", "unknown_type"}

\* out are the offsets published to cdp.processed.interactions, skipped the
\* offsets dropped with a log line only.
IdleConsumer == [pc |-> "next", pos |-> 0, out |-> {}, skipped |-> {}, err |-> ""]

\* if validated.event_type not in MOBILE_EVENT_TYPES: continue
SkipsEventType(c, payload) == c = "mobile_app" /\ payload = "unknown_type"

\* async for msg in self._consumer: the consumer hands out the next message
\* after running value_deserializer (json.loads) on it; bytes that are no
\* JSON make it raise at the loop header, outside of the try block, and
\* run() ends with that exception. Otherwise the try block runs up to the
\* send: a ValidationError is logged and the message dropped.
ConsumerNext(c) ==
    /\ cs[c].pc = "next"
    /\ cs[c].pos < NRaw
    /\ LET i == cs[c].pos + 1
           payload == raw[c][i]
       IN  cs' = [cs EXCEPT ![c] =
                CASE payload = "garbled" ->
                       [@ EXCEPT !.pc = "crashed", !.err = "JSONDecodeError"]
                  [] payload = "invalid" \/ SkipsEventType(c, payload) ->
                       [@ EXCEPT !.pos = i, !.skipped = @ \cup {i}]
                  [] OTHER -> [@ EXCEPT !.pc = "send"]]
    /\ UNCHANGED <<kp, raw>>
    /\ UNCHANGED <<builderVars, streamVars, consentVars, erasureVars, servingVars>>

\* await self._producer.send(DEST_TOPIC, ...): published, or send raises
\* RuntimeError after its retries, which except Exception logs.
ConsumerSend(c, ok) ==
    /\ cs[c].pc = "send"
    /\ LET i == cs[c].pos + 1
       IN  cs' = [cs EXCEPT ![c] =
                IF ok THEN [@ EXCEPT !.pc = "next", !.pos = i, !.out = @ \cup {i}]
                ELSE [@ EXCEPT !.pc = "next", !.pos = i, !.skipped = @ \cup {i}]]
    /\ UNCHANGED <<kp, raw>>
    /\ UNCHANGED <<builderVars, streamVars, consentVars, erasureVars, servingVars>>

InitIngest ==
    /\ raw \in [Consumers -> [1..NRaw -> Payloads]]
    /\ cs = [c \in Consumers |-> IdleConsumer]
    /\ kp = << >>
    /\ BuilderIdle /\ StreamIdle /\ ConsentIdle /\ ErasureIdle /\ ServingIdle

NextIngest ==
    \/ \E c \in Consumers : ConsumerNext(c)
    \/ \E c \in Consumers, ok \in BOOLEAN : ConsumerSend(c, ok)

SpecIngest == InitIngest /\ [][NextIngest]_vars

\* ------------------------------------------------------- MongoProfileStore
NWriters == 2
Writers == 1..NWriters
StoreIds == {1, 2}
SegmentTags == {"vip", "alumni"}

\* No document under a profile_id.
NoStored ==
    [exists |-> FALSE, version |-> 0, segments |-> {},
     consent |-> [c \in ChannelSet |-> None], phone |-> FALSE]

\* A stored document: _version, segments, channel_consent[c].consented
\* ("T" / "F", None for a channel without a record), personal_info.phone set.
Stored(v, segs, consent, phone) ==
    [exists |-> TRUE, version |-> v, segments |-> segs,
     consent |-> consent, phone |-> phone]

\* The filter of find_one_and_update in upsert_profile:
\* {"profile_id": profile.profile_id}; the version that was read is no part
\* of it.
UpsertMatches(doc, readVersion) == doc.exists

\* find_one_and_update(filter, {"$set": data, "$inc": {"_version": 1}, ...},
\* upsert=True, return_document=AFTER): the document after the update; with
\* no match, upsert=True inserts one from the $set and $inc operators.
FindOneAndUpdate(doc, data, readVersion) ==
    IF UpsertMatches(doc, readVersion)
    THEN [doc EXCEPT !.version = @ + 1, !.segments = data.segments,
                     !.consent = data.consent, !.phone = data.phone]
    ELSE Stored(1, data.segments, data.consent, data.phone)

\* if result is None: raise OptimisticLockError. The document returned
\* under upsert=True with ReturnDocument.AFTER always exists.
UpsertRaises(result) == ~result.exists

IdleApi ==
    [pc |-> "idle", pid |-> 0, add |-> {}, remove |-> {}, profile |-> NoStored,
     \* the _version the document had when get_profile read it and when
     \* upsert_profile wrote it, and whether the write took effect
     rv |-> 0, wv |-> 0, applied |-> FALSE]

\* POST /profiles/{profile_id}/segments with a SegmentUpdate body. Requests
\* are interchangeable: they arrive in index order.
UpdateSegmentsStart(w, pid, add, remove) ==
    /\ api[w].pc = "idle"
    /\ \A d \in Writers : d < w => api[d].pc # "idle"
    /\ api' = [api EXCEPT ![w] = [IdleApi EXCEPT !.pc = "get", !.pid = pid,
                                                 !.add = add, !.remove = remove]]
    /\ UNCHANGED <<pstore, etl, eng>>
    /\ UNCHANGED <<builderVars, streamVars, consentVars, erasureVars, ingestVars>>

\* profile = await store.get_profile(profile_id): 404 when there is none;
\* CustomerProfile has no version field, so model_validate drops _version.
\* The new segments are computed before the next suspension.
UpdateSegmentsGet(w) ==
    /\ api[w].pc = "get"
    /\ LET doc == pstore[api[w].pid]
       IN  api' = IF ~doc.exists
                  THEN [api EXCEPT ![w].pc = "raised404"]
                  ELSE [api EXCEPT
                          ![w].pc = "upsert",
                          ![w].rv = doc.version,
                          ![w].profile = [doc EXCEPT !.version = 0,
                              !.segments = (@ \cup api[w].add) \ api[w].remove]]
    /\ UNCHANGED <<pstore, etl, eng>>
    /\ UNCHANGED <<builderVars, streamVars, consentVars, erasureVars, ingestVars>>

\* await store.upsert_profile(profile)
UpdateSegmentsUpsert(w) ==
    /\ api[w].pc = "upsert"
    /\ LET doc == pstore[api[w].pid]
           result == FindOneAndUpdate(doc, api[w].profile, api[w].rv)
       IN  /\ pstore' = [pstore EXCEPT ![api[w].pid] = result]
           /\ api' = IF UpsertRaises(result)
                     THEN [api EXCEPT ![w].pc = "raisedLock", ![w].wv = doc.version]
                     ELSE [api EXCEPT ![w].pc = "returned", ![w].wv = doc.version,
                                      ![w].applied = (result # doc)]
    /\ UNCHANGED <<etl, eng>>
    /\ UNCHANGED <<builderVars, streamVars, consentVars, erasureVars, ingestVars>>

\* await store.delete_profile(profile_id), by another client of the store.
DeleteProfile(pid) ==
    /\ pstore[pid].exists
    /\ \E w \in Writers : api[w].pc = "upsert" /\ api[w].pid = pid
    /\ pstore' = [pstore EXCEPT ![pid] = NoStored]
    /\ UNCHANGED <<api, etl, eng>>
    /\ UNCHANGED <<builderVars, streamVars, consentVars, erasureVars, ingestVars>>

InitStore ==
    /\ pstore \in [StoreIds ->
          {NoStored,
           Stored(1, {}, [c \in ChannelSet |-> None], FALSE),
           Stored(2, {"vip"}, [c \in ChannelSet |-> None], FALSE)}]
    /\ api = [w \in Writers |-> IdleApi]
    /\ etl = << >>
    /\ eng = << >>
    /\ BuilderIdle /\ StreamIdle /\ ConsentIdle /\ ErasureIdle /\ IngestIdle

NextProfileStore ==
    \/ \E w \in Writers, pid \in StoreIds, add \in SUBSET SegmentTags,
          remove \in {{}, {"vip"}} : UpdateSegmentsStart(w, pid, add, remove)
    \/ \E w \in Writers : UpdateSegmentsGet(w)
    \/ \E w \in Writers : UpdateSegmentsUpsert(w)
    \/ \E pid \in StoreIds : DeleteProfile(pid)

SpecStore == InitStore /\ [][NextProfileStore]_vars

\* --------------------------------------------------------- ReverseETLEngine
NOps == 2
MaxBatch == 2
salesforce_daily_api_limit == 100000

\* A profile dict handed to sync_to_salesforce: its profile_id (0: missing or
\* empty) and whether a non-PII string field holds an "@".
SfItems == [profile_id : {0} \cup StoreIds, leak : BOOLEAN]

\* _validate_before_push
ValidateBeforePush(item) == ~item.leak /\ item.profile_id # 0

\* _dedup_key(channel, profile_id, payload): one payload per channel here.
DedupKey(channel, pid) == <<channel, pid>>

\* _check_consent: False for no profile, no consent record for the channel,
\* or consented == False.
CheckConsent(doc, channel) == doc.exists /\ doc.consent[channel] = "T"

\* The external call an operation makes; checked tells whether _check_consent
\* returned True earlier in the same operation.
OutboundCall(e, kind, pid) == [op |-> e.n, kind |-> kind, pid |-> pid, checked |-> e.checked]

IdleEtl ==
    [pc |-> "idle", n |-> 0, op |-> "", pid |-> 0, items |-> << >>, i |-> 0,
     checked |-> FALSE, nchecks |-> 0, result |-> "",
     succeeded |-> 0, failed |-> 0]

\* One of the three operations is called once the previous one has ended.
EtlCanStart == etl.pc \in {"idle", "returned", "raised"} /\ etl.n < NOps

TriggerStart(op, pid) ==
    /\ EtlCanStart
    /\ etl' = [IdleEtl EXCEPT !.pc = "check", !.n = etl.n + 1, !.op = op, !.pid = pid]
    /\ UNCHANGED <<pstore, api, eng>>
    /\ UNCHANGED <<builderVars, streamVars, consentVars, erasureVars, ingestVars>>

\* trigger_whatsapp / trigger_email up to the next suspension:
\* if not await self._check_consent(profile_id, channel): the refusal is
\* logged as audit=consent_denied and False is returned; otherwise the
\* dedup registry is consulted.
TriggerCheck ==
    /\ etl.pc = "check"
    /\ LET allowed == CheckConsent(pstore[etl.pid], etl.op)
           key == DedupKey(etl.op, etl.pid)
       IN  IF ~allowed
           THEN /\ etl' = [etl EXCEPT !.pc = "returned", !.result = "False",
                                      !.nchecks = @ + 1]
                /\ eng' = [eng EXCEPT !.log = Append(@,
                              [op |-> etl.n, audit |-> "consent_denied",
                               channel |-> etl.op, pid |-> etl.pid])]
           ELSE /\ etl' = IF key \in eng.dedup
                          THEN [etl EXCEPT !.pc = "returned", !.result = "True",
                                           !.checked = TRUE, !.nchecks = @ + 1]
                          ELSE [etl EXCEPT !.pc = IF etl.op = "whatsapp"
                                                  THEN "getProfile" ELSE "post",
                                           !.checked = TRUE, !.nchecks = @ + 1]
                /\ UNCHANGED eng
    /\ UNCHANGED <<pstore, api>>
    /\ UNCHANGED <<builderVars, streamVars, consentVars, erasureVars, ingestVars>>

\* trigger_whatsapp: profile = await self._store.get_profile(profile_id);
\* False when there is none or it has no phone.
WhatsappGetProfile ==
    /\ etl.pc = "getProfile"
    /\ etl' = IF ~pstore[etl.pid].exists \/ ~pstore[etl.pid].phone
              THEN [etl EXCEPT !.pc = "returned", !.result = "False"]
              ELSE [etl EXCEPT !.pc = "post"]
    /\ UNCHANGED <<pstore, api, eng>>
    /\ UNCHANGED <<builderVars, streamVars, consentVars, erasureVars, ingestVars>>

\* resp = await self._http.post(...): a response below 300, one of 300 or
\* more, or an httpx error, which leaves the operation. After a response
\* the key is registered and the send is logged.
TriggerPost(outcome) ==
    /\ etl.pc = "post"
    /\ IF outcome = "raise"
       THEN /\ etl' = [etl EXCEPT !.pc = "raised"]
            /\ eng' = [eng EXCEPT !.calls = @ \cup {OutboundCall(etl, etl.op, etl.pid)}]
       ELSE /\ etl' = [etl EXCEPT !.pc = "returned",
                           !.result = IF outcome = "ok" THEN "True" ELSE "False"]
            /\ eng' = [eng EXCEPT
                   !.calls = @ \cup {OutboundCall(etl, etl.op, etl.pid)},
                   !.dedup = @ \cup {DedupKey(etl.op, etl.pid)},
                   !.log = Append(@, [op |-> etl.n, audit |-> etl.op,
                                      channel |-> etl.op, pid |-> etl.pid])]
    /\ UNCHANGED <<pstore, api>>
    /\ UNCHANGED <<builderVars, streamVars, consentVars, erasureVars, ingestVars>>

\* sync_to_salesforce(profiles) is entered.
SyncStart(items) ==
    /\ EtlCanStart
    /\ etl' = [IdleEtl EXCEPT !.pc = "item", !.n = etl.n + 1,
                              !.op = "salesforce", !.items = items, !.i = 1]
    /\ UNCHANGED <<pstore, api, eng>>
    /\ UNCHANGED <<builderVars, streamVars, consentVars, erasureVars, ingestVars>>

\* for profile in profiles: validation, the daily limit and the dedup
\* registry, up to the PATCH; return result after the last one.
SyncItem ==
    /\ etl.pc = "item"
    /\ IF etl.i > Len(etl.items)
       THEN etl' = [etl EXCEPT !.pc = "returned", !.result = "SyncResult"]
       ELSE LET item == etl.items[etl.i]
            IN  IF ~ValidateBeforePush(item)
                THEN etl' = [etl EXCEPT !.failed = @ + 1, !.i = @ + 1]
                ELSE IF eng.sf_calls_today >= salesforce_daily_api_limit
                THEN etl' = [etl EXCEPT
                        !.failed = @ + (Len(etl.items) - etl.succeeded - etl.failed),
                        !.pc = "returned", !.result = "SyncResult"]
                ELSE IF DedupKey("sf", item.profile_id) \in eng.dedup
                THEN etl' = [etl EXCEPT !.succeeded = @ + 1, !.i = @ + 1]
                ELSE etl' = [etl EXCEPT !.pc = "patch", !.pid = item.profile_id]
    /\ UNCHANGED <<pstore, api, eng>>
    /\ UNCHANGED <<builderVars, streamVars, consentVars, erasureVars, ingestVars>>

\* await self._http.patch(.../sobjects/Contact/{sf_id}, ...): the call
\* returns, or raises httpx.HTTPError, which is caught and counted.
SyncPatch(ok) ==
    /\ etl.pc = "patch"
    /\ IF ok
       THEN /\ etl' = [etl EXCEPT !.pc = "item", !.succeeded = @ + 1, !.i = @ + 1]
            /\ eng' = [eng EXCEPT
                   !.calls = @ \cup {OutboundCall(etl, "salesforce", etl.pid)},
                   !.sf_calls_today = @ + 1,
                   !.dedup = @ \cup {DedupKey("sf", etl.pid)},
                   !.log = Append(@, [op |-> etl.n, audit |-> "sf_sync",
                                      channel |-> "salesforce", pid |-> etl.pid])]
       ELSE /\ etl' = [etl EXCEPT !.pc = "item", !.failed = @ + 1, !.i = @ + 1]
            /\ eng' = [eng EXCEPT
                   !.calls = @ \cup {OutboundCall(etl, "salesforce", etl.pid)}]
    /\ UNCHANGED <<pstore, api>>
    /\ UNCHANGED <<builderVars, streamVars, consentVars, erasureVars, ingestVars>>

\* One stored profile, with or without consent per channel and a phone; the
\* other profile_id has no document. The call counter starts anywhere up to
\* the daily limit.
InitEtl ==
    /\ \E w \in {"T", "F"}, m \in {"T", "F", None}, ph \in BOOLEAN :
          pstore = [p \in StoreIds |->
              IF p = 1
              THEN Stored(1, {}, [c \in ChannelSet |->
                                      IF c = "whatsapp" THEN w ELSE m], ph)
              ELSE NoStored]
    /\ api = [w \in Writers |-> IdleApi]
    /\ etl = IdleEtl
    /\ \E k \in {0, salesforce_daily_api_limit - 1, salesforce_daily_api_limit} :
          eng = [dedup |-> {}, sf_calls_today |-> k, calls |-> {}, log |-> << >>]
    /\ BuilderIdle /\ StreamIdle /\ ConsentIdle /\ ErasureIdle /\ IngestIdle

NextEtl ==
    \/ \E op \in ChannelSet, pid \in StoreIds : TriggerStart(op, pid)
    \/ TriggerCheck
    \/ WhatsappGetProfile
    \/ \E outcome \in {"ok", "status", "raise"} : TriggerPost(outcome)
    \/ \E n \in 0..MaxBatch : \E items \in [1..n -> SfItems] : SyncStart(items)
    \/ SyncItem
    \/ \E ok \in BOOLEAN : SyncPatch(ok)

SpecEtl == InitEtl /\ [][NextEtl]_vars

\* ------------------------------------------------------------------ properties
Finished(c) == task[c].pc \in {"returned", "raised"}

\* C1: a replace_one of update_profile takes effect only when the stored
\* document exists and its version equals the version the call read; any
\* other write attempt leaves the whole collection as it was.
C1_NoStaleWrite ==
    [][\A c \in Callers :
         (task[c].pc = "write" /\ task'[c].pc # "write")
         => \/ /\ profiles[task[c].pid].exists
               /\ profiles[task[c].pid].version = task[c].rv
            \/ profiles' = profiles]_vars

\* A call whose first write was rejected as stale and whose second persisted.
C1_Witness ==
    \E c \in Callers :
        task[c].pc = "returned" /\ task[c].attempt = 2 /\ task[c].persisted

\* C2: two update_profile calls on one profile that starts with version v,
\* no other writer: both return, the version ends at v + 2 and the
\* interaction total has grown by 2.
C2_TwoConcurrentUpdates ==
    \A p \in ProfileIds : \A c1, c2 \in Callers :
        ( /\ c1 # c2
          /\ Finished(c1) /\ Finished(c2)
          /\ task[c1].pid = p /\ task[c2].pid = p
          /\ \A d \in Callers \ {c1, c2} : task[d].pc = "idle" \/ task[d].pid # p
          /\ mg.pc = "idle"
          /\ profiles0[p].exists /\ profiles0[p].version # NoVersion )
        => /\ task[c1].pc = "returned" /\ task[c2].pc = "returned"
           /\ profiles[p].version = profiles0[p].version + 2
           /\ profiles[p].total = profiles0[p].total + 2

\* Both calls are done and one of them had to retry after a conflict.
C2_Witness ==
    /\ mg.pc = "idle"
    /\ profiles0[1].version # NoVersion
    /\ task[1].pc = "returned" /\ task[2].pc = "returned"
    /\ task[1].pid = 1 /\ task[2].pid = 1
    /\ task[1].attempt + task[2].attempt = 3

\* C10: a call makes at most 3 write attempts, each after a fresh read of
\* its own; OptimisticLockError comes after exactly 3 conflicting writes, and
\* a returned profile is one whose write was persisted.
C10_BoundedRetries ==
    \A c \in Callers :
        /\ task[c].nwrites <= 3
        /\ task[c].pc = "write" => task[c].nreads = task[c].nwrites + 1
        /\ task[c].err = "OptimisticLockError"
              => task[c].pc = "raised" /\ task[c].nwrites = 3 /\ task[c].nreads = 3
        /\ (task[c].nwrites = 3 /\ ~task[c].persisted)
              => task[c].pc = "raised" /\ task[c].err = "OptimisticLockError"
        /\ task[c].pc = "returned" => task[c].persisted

\* A call whose three writes all conflicted.
C10_Witness ==
    \E c \in Callers :
        task[c].pc = "raised" /\ task[c].err = "OptimisticLockError"
        /\ task[c].nwrites = 3

\* The (type, value) pairs a stored profile contains.
IdentifierPairs(doc) ==
    {<<t, doc.ids[t]>> : t \in {x \in Types : doc.ids[x] \notin {None, ""}}}
    \cup doc.arr

\* C3: while every event handled so far was processed without an error, no
\* (type, value) identifier pair is contained in more than one profile.
C3_IdentifierUnique ==
    (\A m \in MsgIds : task[m].err = "")
    => \A p, q \in ProfileIds :
         (p # q /\ profiles[p].exists /\ profiles[q].exists)
         => IdentifierPairs(profiles[p]) \cap IdentifierPairs(profiles[q]) = {}

\* C4: offsets are committed once per non-empty polled batch, and only when
\* every task of the batch has finished by publishing downstream or by
\* routing its message to the DLQ.
C4_CommitAfterBatch ==
    /\ loop.pc \in {"poll", "stopped"} => loop.commits = loop.polls
    /\ loop.pc \in {"gather", "commit"} => loop.commits + 1 = loop.polls
    /\ \A m \in MsgIds : m <= loop.committed => task[m].pc = "done"

\* C5: a message whose offset is committed has reached the staging topic or
\* the DLQ.
C5_NoMessageLost ==
    \A m \in MsgIds : m <= loop.committed => m \in staging \cup dlq

\* C9: for every stored profile the version has grown by exactly the number
\* of successful writes made to its document (insert, replace, update).
C9_VersionCountsWrites ==
    \A p \in ProfileIds :
        profiles[p].exists
        => ReadVersion(profiles[p]) - ReadVersion(profiles0[p])
             = writes[p] - InitialWrites(profiles0[p])

\* C6: a stored consent value of a profile goes from true to false or from
\* false to true only in a step that also appends an audit entry.
C6_ConsentChangeAudited ==
    [][\A p \in ProfileIds : \A c \in Channels :
         ( /\ profiles[p].exists /\ profiles'[p].exists
           /\ profiles[p].consent[c] \in {"T", "F"}
           /\ profiles'[p].consent[c] \in {"T", "F"}
           /\ profiles'[p].consent[c] # profiles[p].consent[c] )
         => \/ Len(consentAudit') > Len(consentAudit)
            \/ Len(auditLog') > Len(auditLog)]_vars

ConsentQuiescent == \A c \in ConsentCallers : cm[c].pc \in {"idle", "returned", "raised"}

\* C7: once no update_consent call is in flight, every stored consent value
\* that differs from the initial one has an audit entry recording it.
C7_AuditedBeforeDurable ==
    ConsentQuiescent
    => \A s \in Students : \A ch \in ChannelSet :
         consents[s].channels[ch] # InitialConsents[s].channels[ch]
         => \E i \in 1..Len(consentAudit) :
              /\ consentAudit[i].student = s
              /\ consentAudit[i].channel = ch
              /\ consentAudit[i].new_value = consents[s].channels[ch]

\* C8: once delete_student has returned a report with fully_deleted = true,
\* no collection of the primary store and no other store holds a record of
\* the subject.
C8_ErasedEverywhere ==
    (er.pc = "returned" /\ er.fully_deleted)
    => /\ \A coll \in MongoCollections : er.student \notin mongo[coll]
       /\ \A st \in ExtStores : er.student \notin ext[st]
\* The profiles whose identifiers contain every identifier of the event.
Containing(ev) ==
    {p \in ProfileIds :
        profiles[p].exists
        /\ \A i \in 1..Len(ev.ids) : ev.ids[i] \in IdentifierPairs(profiles[p])}

\* C11: once the offset of a successfully processed event (resolve, then a
\* persisted update_profile) is committed, exactly one profile contains all
\* identifiers of the event.
C11_OneProfileHoldsEvent ==
    \A m \in MsgIds :
        (m <= loop.committed /\ task[m].persisted)
        => Cardinality(Containing(task[m].ev)) = 1

\* The positions of an event's identifiers that the deterministic step has
\* to probe up to position k: deterministic type, non-empty value.
ToProbe(ids, k) ==
    {i \in 1..k : ids[i][1] \in DETERMINISTIC_FIELDS /\ ids[i][2] # ""}

ReviewFlags(c) ==
    {i \in 1..Len(auditLog) :
        auditLog[i].action = "review_flag" /\ auditLog[i].a = c}

\* C13: a resolve that found no deterministic match but a best candidate
\* returns the candidate without creating a profile when the candidate's
\* confidence is at least 0.85, and otherwise has written one review_flag
\* for the candidate and returns a profile it created. The confidence is
\* 0.6 * name_score + 0.4 * overlap, overlap being the Jaccard index of the
\* event's identifier values and the candidate's (units of 1/12000).
C13_AutoMergeAtThreshold ==
    \A m \in MsgIds :
        (Resolved(m) /\ task[m].cand_id # 0)
        => LET doc == profiles[task[m].cand_id]
               ev_ids == IdValues(task[m].ev.ids)
               cand_ids == {pr[2] : pr \in IdentifierPairs(doc)}
               union == Cardinality(ev_ids \cup cand_ids)
               inter == Cardinality(ev_ids \cap cand_ids)
               confidence == 72 * NameScore(task[m].ev.pname, doc.pname)
                             + (4800 * inter) \div (IF union > 1 THEN union ELSE 1)
           IN  IF confidence >= ConfidenceAutoMerge
               THEN task[m].pid = task[m].cand_id /\ task[m].ninsert = 0
               ELSE /\ task[m].pid # task[m].cand_id
                    /\ task[m].ninsert = 1
                    /\ task[m].naudit = 2
                    /\ ReviewFlags(task[m].cand_id) # {}

\* C14: with the profile of 'Alice Brown' holding (phone, +49123456789)
\* stored as profile 2, resolving the event of 'alice brown' with that phone
\* and (device_id, D1) computes confidence 0.8 (9600/12000), writes a
\* review_flag for profile 2 and returns a newly created profile.
C14_AliceBelowThreshold ==
    \A m \in MsgIds :
        (Resolved(m) /\ task[m].ev.pname = "alice brown")
        => /\ task[m].conf = 9600
           /\ task[m].cand_id = 2
           /\ ReviewFlags(2) # {}
           /\ task[m].via = "created"
           /\ task[m].pid # 2

\* Every identifier a stored profile holds, in whichever field.
AllIdentifiers(doc) == IdentifierPairs(doc) \cup doc.idlist

\* The merge entries of the audit log for primary pri and secondary sec.
MergeEntries(pri, sec) ==
    {i \in 1..Len(auditLog) :
        auditLog[i].action = "merge" /\ auditLog[i].a = pri /\ auditLog[i].b = sec}

\* C15: once _merge_profiles(primary, secondary) is over, if it found both
\* profiles then the secondary is gone, the primary holds the identifiers of
\* both and one merge entry names the two; if a profile was missing there is
\* no merge entry.
C15_MergeUnitesProfiles ==
    mg.pc \in {"returned", "raised"}
    => IF mg.secDoc.exists /\ mg.priDoc.exists
       THEN /\ ~profiles[mg.sec].exists
            /\ profiles[mg.pri].exists
            /\ AllIdentifiers(mg.priDoc) \cup AllIdentifiers(mg.secDoc)
                  \subseteq AllIdentifiers(profiles[mg.pri])
            /\ Cardinality(MergeEntries(mg.pri, mg.sec)) = 1
       ELSE MergeEntries(mg.pri, mg.sec) = {}

\* C16: when update_profile persists its write, every channel's stored
\* consent becomes the conjunction of the value stored until then and the
\* event's value (a side without the channel leaves the other side's value):
\* false on either side gives false, and a stored false never becomes true.
C16_ConsentMostRestrictive ==
    [][\A c \in DOMAIN task : \A ch \in Channels :
         (task[c].pc = "write" /\ task'[c].pc = "returned")
         => LET old == profiles[task[c].pid].consent[ch]
                inc == task[c].ev.consent[ch]
                new == profiles'[task[c].pid].consent[ch]
            IN  new = IF inc = None THEN old
                      ELSE IF old = None THEN inc
                      ELSE IF old = "T" /\ inc = "T" THEN "T" ELSE "F"]_vars

\* C17: consent merge is commutative. For merge_consent: when the merge of B
\* into A and the merge of (a copy of) A into (a copy of) B have both
\* completed, the two surviving records hold the same per-channel consent.
\* For the resolver's merge: the consent it stores in the primary is what
\* the same merge computes with primary and secondary exchanged.
C17_MergeCommutes ==
    /\ (mc[1].pc = "returned" /\ mc[2].pc = "returned")
       => consents[mc[1].primary].channels = consents[mc[2].primary].channels
    /\ (mg.pc \in {"delete", "audit", "returned"} /\ mg.priDoc.exists)
       => profiles[mg.pri].consent = MergedConsent(mg.secDoc.consent, mg.priDoc.consent)

C17_Witness ==
    /\ mc[1].pc = "returned" /\ mc[2].pc = "returned"
    /\ mc[1].p0.channels["email"] = "T" /\ mc[1].s0.channels["email"] = "F"
    /\ mc[1].p0.channels["whatsapp"] = None /\ mc[1].s0.channels["whatsapp"] = "T"
    /\ mg.pc = "returned" /\ mg.priDoc.exists
    /\ mg.priDoc.consent # mg.secDoc.consent

\* C18: once merge_consent(primary, secondary) has completed, the primary's
\* stored consent on every channel is the conjunction of what the two
\* records held when the merge was entered (no entry counting as not
\* consented), and the secondary has no record.
C18_MergeConsentMostRestrictive ==
    \A m \in MergeIds :
        mc[m].pc = "returned"
        => /\ \A ch \in ChannelSet :
                consents[mc[m].primary].channels[ch]
                  = IF mc[m].p0.channels[ch] = "T" /\ mc[m].s0.channels[ch] = "T"
                    THEN "T" ELSE "F"
           /\ ~consents[mc[m].secondary].exists

C18_Witness ==
    \E m \in MergeIds :
        /\ mc[m].pc = "returned"
        /\ mc[m].p0.channels["email"] = "T" /\ mc[m].s0.channels["email"] = None
        /\ mc[m].p0.channels["whatsapp"] = "T" /\ mc[m].s0.channels["whatsapp"] = "T"
        /\ mc[m].s0.exists

\* The calls whose update_one on (student, channel) has been applied.
Wrote(student, channel) ==
    {c \in ConsentCallers :
        /\ cm[c].student = student /\ cm[c].channel = channel
        /\ \/ cm[c].pc \in {"audit", "returned"}
           \/ cm[c].pc = "raised" /\ cm[c].err = "AuditError"}

\* C19: every update_consent call that completed on a known channel appended
\* exactly one audit entry, with the requested value as new_value, also when
\* the stored value already was the requested one; its write left the stored
\* consent equal to the requested value (and it still is, unless another
\* call wrote the same student and channel). A call with an unknown channel
\* raises ValueError and changes neither the consents nor the audit log.
C19_EveryUpdateAudited ==
    /\ [](Len(consentAudit)
            = Cardinality({c \in ConsentCallers : cm[c].pc = "returned"}))
    /\ [](\A c \in ConsentCallers :
            /\ (cm[c].pc # "idle" /\ cm[c].channel \notin ChannelSet)
               => cm[c].pc = "raised" /\ cm[c].err = "ValueError"
            /\ cm[c].pc = "returned"
               => \/ consents[cm[c].student].channels[cm[c].channel] = cm[c].value
                  \/ Wrote(cm[c].student, cm[c].channel) # {c})
    /\ [][\A c \in ConsentCallers :
            /\ (cm[c].pc = "upsert" /\ cm'[c].pc = "audit")
               => consents'[cm[c].student].channels[cm[c].channel] = cm[c].value
            /\ (cm[c].pc = "audit" /\ cm'[c].pc = "returned")
               => /\ consentAudit' = Append(consentAudit,
                        [student |-> cm[c].student, channel |-> cm[c].channel,
                         old_value |-> cm[c].old, new_value |-> cm[c].value])
                  /\ consents' = consents
            /\ (cm[c].pc = "idle" /\ cm'[c].pc = "raised")
               => /\ cm'[c].err = "ValueError"
                  /\ consents' = consents /\ consentAudit' = consentAudit]_vars

C19_Witness ==
    \E c \in ConsentCallers, d \in ConsentCallers :
        /\ cm[c].pc = "returned" /\ cm[c].old = cm[c].value
        /\ consents[cm[c].student].channels[cm[c].channel] = cm[c].value
        /\ Len(consentAudit) = 1
        /\ cm[d].pc = "raised" /\ cm[d].err = "ValueError" /\ cm[d].channel = "fax"

\* The store names of report.store_results, in order.
ResultStores == [i \in 1..Len(er.results) |-> er.results[i].store]

\* C20: delete_student attempts the stores in the order mongodb, bigquery,
\* pinecone, vertex_ai, kafka, salesforce and its report lists one result
\* per attempted store in that order; once the report is complete (also
\* when stores failed after their retries) it holds one result for each of
\* the six stores and every store was attempted.
C20_AllStoresInOrder ==
    /\ er.tried = SubSeq(Deleters, 1, Len(er.tried))
    /\ ResultStores = SubSeq(Deleters, 1, Len(er.results))
    /\ Len(er.tried) - Len(er.results) \in {0, 1}
    /\ er.pc \in {"audit", "returned"}
       => er.tried = Deleters /\ ResultStores = Deleters

C20_Witness ==
    /\ er.pc = "returned"
    /\ ~er.results[1].deleted /\ ~er.results[3].deleted
    /\ er.results[2].deleted /\ er.results[6].deleted
    /\ Len(er.results) = 6

\* The waits of a retry loop that made n attempts and is not yet over, or
\* is over after n attempts: 2^a seconds after each attempt a < n.
WaitsOf(n) == [a \in 1..(n - 1) |-> 2 ^ a]

\* C21: a store step makes at most 3 attempts and stops at the first one
\* that returns; it sleeps 2^attempt seconds after a raising attempt only
\* when another attempt follows; its StoreResult has deleted=false and an
\* error exactly when 3 attempts raised; a running step always comes to its
\* StoreResult.
C21_BoundedStoreRetry ==
    /\ [](er.pc = "run"
            => /\ er.attempt \in 1..3
               /\ er.raised = er.attempt - 1
               /\ er.waits = WaitsOf(er.attempt))
    /\ [](\A i \in 1..Len(er.results) :
            LET r == er.results[i]
            IN  /\ r.attempts \in 1..3
                /\ r.waits = WaitsOf(r.attempts)
                /\ r.deleted => r.raised = r.attempts - 1 /\ r.error = None
                /\ (~r.deleted /\ r.error # None) <=> r.raised = 3)
    /\ [][(er.pc = "run" /\ er'.raised = er.raised /\ er' # er)
            => /\ Len(er'.results) = Len(er.results) + 1
               /\ er'.results[Len(er'.results)].deleted
               /\ er'.results[Len(er'.results)].waits = er.waits]_vars
    /\ \A k \in 1..Len(Deleters) :
          (er.pc = "run" /\ er.step = k) ~> (er.pc = "audit" \/ er.step > k)

C21_Witness ==
    /\ Len(er.results) >= 3
    /\ ~er.results[1].deleted /\ er.results[1].waits = <<2, 4>>
    /\ er.results[2].deleted /\ er.results[2].attempts = 2 /\ er.results[2].waits = <<2>>
    /\ er.results[3].deleted /\ er.results[3].attempts = 1 /\ er.results[3].waits = << >>

Residual(s) ==
    \/ \E coll \in {ErasedCollections[i] : i \in DOMAIN ErasedCollections}
                     \cup {"salesforce_mappings"} : s \in mongo[coll]
    \/ \E st \in ExtStores : s \in ext[st]

\* C23: once verify_deletion has returned, all_clear is true exactly when no
\* store targeted by delete_student holds a record of the subject; after a
\* delete_student of the subject whose six results are all deleted = true
\* it is true; and one audit entry was written.
C23_VerifyAllStores ==
    vf.pc = "returned"
    => /\ vf.all_clear <=> ~Residual(vf.student)
       /\ (er.student = vf.student /\ FullyDeleted(er.results)) => vf.all_clear
       /\ vf.audited = 1

\* C24: a send call makes at most 5 publish attempts; it returns at its
\* first successful attempt, having incremented the success counter of its
\* topic once and the error counter once per failed attempt; it raises
\* exactly when 5 attempts failed; no counter of another topic moves.
C24_SendRetriesFiveTimes ==
    /\ [](kp.pc # "idle"
            => /\ kp.attempt \in 1..5
               /\ \A t \in Topics \ {kp.topic} :
                    kp.produced[t] = kp.produced0[t] /\ kp.errors[t] = kp.errors0[t])
    /\ [](kp.pc = "attempt"
            => /\ kp.errors[kp.topic] = kp.errors0[kp.topic] + kp.attempt - 1
               /\ kp.produced[kp.topic] = kp.produced0[kp.topic])
    /\ [](kp.pc = "returned"
            => /\ kp.produced[kp.topic] = kp.produced0[kp.topic] + 1
               /\ kp.errors[kp.topic] = kp.errors0[kp.topic] + kp.attempt - 1)
    /\ [](kp.pc = "raised"
            => /\ kp.attempt = 5
               /\ kp.errors[kp.topic] = kp.errors0[kp.topic] + 5
               /\ kp.produced[kp.topic] = kp.produced0[kp.topic])
    /\ [][(kp.pc = "attempt" /\ kp'.produced # kp.produced) => kp'.pc = "returned"]_vars
    /\ [][(kp.pc # "raised" /\ kp'.pc = "raised")
            => kp.errors[kp.topic] = kp.errors0[kp.topic] + 5]_vars

C24_Witness ==
    /\ kp.calls = 2
    /\ kp.pc = "returned" /\ kp.attempt = 3
    /\ kp.topic = "cdp.raw.whatsapp"
    /\ kp.errors0["cdp.raw.whatsapp"] = 5
    /\ kp.errors["cdp.raw.whatsapp"] = 7

\* C25: the n-th wait of a send call is 0.5 s * 2^(n-1); no wait exceeds
\* 8 seconds; a wait is taken only before a further attempt, so a call that
\* ended took one wait less than it made attempts.
C25_BackoffOnlyBetweenAttempts ==
    /\ \A n \in 1..Len(kp.waits) :
          kp.waits[n] = 500 * (2 ^ (n - 1)) /\ kp.waits[n] <= 8000
    /\ kp.pc \in {"attempt", "returned", "raised"} => Len(kp.waits) = kp.attempt - 1

\* A message task that has ended, by returning or with an escaped exception.
Ended(m) == task[m].pc \in {"done", "failed"}

\* C26: a message whose source is not a valid source ends in the DLQ with
\* reason "unknown_source", and for it the resolver made no query, insert
\* or audit entry and the builder no read or write.
C26_UnknownSourceToDlq ==
    \A m \in MsgIds :
        (Ended(m) /\ task[m].ev.source \notin VALID_SOURCES)
        => /\ m \in dlq
           /\ task[m].dlq_reason = <<"unknown_source">>
           /\ task[m].nfinds = 0 /\ task[m].ninsert = 0 /\ task[m].naudit = 0
           /\ task[m].nreads = 0 /\ task[m].nwrites = 0

\* C27: every message task that has ended produced exactly one output, a
\* staging record or a DLQ record and never both, and a task in which an
\* exception was raised ended with its message in the DLQ.
C27_OneOutputPerMessage ==
    \A m \in MsgIds :
        Ended(m)
        => /\ (m \in staging) # (m \in dlq)
           /\ task[m].err # "" => m \in dlq

\* C28: no message ends the consume loop of an ingestion consumer, and a
\* message whose payload cannot be deserialized is on the DLQ once the
\* loop has come to it.
C28_LoopSurvivesBadPayload ==
    \A c \in Consumers :
        /\ cs[c].pc # "crashed"
        /\ \A i \in 1..NRaw :
              (raw[c][i] = "garbled" /\ (cs[c].pos >= i \/ cs[c].pc = "crashed"))
              => i \in dlq

\* The partition key of a message: the ingestion consumers key a message by
\* the session or device identifier of its event, its first identifier.
PartitionKey(ev) == ev.ids[1]

\* C29: of two messages with the same partition key, the one with the lower
\* offset has its profile write persisted first.
C29_WriteOrderFollowsOffsets ==
    \A m1 \in MsgIds, m2 \in MsgIds :
        (/\ m1 < m2
         /\ task[m1].persisted /\ task[m2].persisted
         /\ PartitionKey(task[m1].ev) = PartitionKey(task[m2].ev))
        => task[m1].wseq < task[m2].wseq

C31_ClientsReleased ==
    loop.pc \in {"stopped", "raised"}
        => loop.consumer # "started" /\ loop.producer # "started"

\* C32: of two update_segments requests on one profile whose get_profile read
\* the same _version, at most one upsert takes effect, the other one raises
\* OptimisticLockError; and an upsert that takes effect was computed from
\* the _version the document has when it is written.
C32_CompareAndSet ==
    /\ \A w1 \in Writers, w2 \in Writers :
         (/\ w1 # w2
          /\ api[w1].pid = api[w2].pid
          /\ api[w1].pc \in {"returned", "raisedLock"}
          /\ api[w2].pc \in {"returned", "raisedLock"}
          /\ api[w1].rv = api[w2].rv
          /\ api[w1].wv > 0 /\ api[w2].wv > 0)
         => /\ ~(api[w1].applied /\ api[w2].applied)
            /\ api[w1].pc = "raisedLock" \/ api[w2].pc = "raisedLock"
    /\ \A w \in Writers : api[w].applied => api[w].wv = api[w].rv

\* C33: every outbound activation call was made by an operation in which a
\* consent check for the profile and channel had succeeded; an operation
\* whose consent check was denied makes no outbound call, logs exactly one
\* consent_denied entry, and checks only once.
C33_ConsentGatesActivation ==
    /\ \A call \in eng.calls : call.checked
    /\ (etl.pc = "returned" /\ etl.nchecks = 1 /\ ~etl.checked)
         => /\ \A call \in eng.calls : call.op # etl.n
            /\ Cardinality({k \in DOMAIN eng.log :
                   eng.log[k].op = etl.n /\ eng.log[k].audit = "consent_denied"}) = 1

\* C34: a persisted update_profile write whose event does not come from the
\* CRM leaves the profile's personal_info as it was, whatever personal_info
\* the event carries; a write that changes it belongs to a CRM event.
C34_PersonalInfoOnlyFromCrm ==
    [][\A c \in Callers :
         (task[c].pc = "write" /\ task'[c].persisted)
         => \/ profiles'[task[c].pid].pname = profiles[task[c].pid].pname
            \/ task[c].ev.source = CONTACT_INFO_AUTHORITY]_vars

\* A website event with personal_info of its own was persisted on a profile
\* that keeps another personal_info, and a CRM event has changed one.
C34_Witness ==
    /\ \E c \in Callers :
          /\ task[c].persisted
          /\ task[c].ev.source = "website"
          /\ task[c].ev.pname # ""
          /\ profiles[task[c].pid].exists
          /\ profiles[task[c].pid].pname # task[c].ev.pname
    /\ \E c \in Callers :
          /\ task[c].persisted
          /\ task[c].ev.source = CONTACT_INFO_AUTHORITY
          /\ profiles[task[c].pid].pname # profiles0[task[c].pid].pname

\* C35: a persisted update_profile write keeps every identifier the profile
\* held, with its value; an identifier it adds is a (type, value) of the
\* event with both parts non-empty, of a type the profile did not hold. No
\* step that leaves a profile in place removes or changes an identifier.
C35_IdentifiersOnlyGrow ==
    /\ [][\A c \in Callers :
            (task[c].pc = "write" /\ task'[c].persisted)
            => \A t \in Types :
                 LET old == profiles[task[c].pid].ids[t]
                     new == profiles'[task[c].pid].ids[t]
                 IN  /\ old # None => new = old
                     /\ (old = None /\ new # None)
                          => /\ new # ""
                             /\ \E i \in 1..Len(task[c].ev.ids) :
                                    task[c].ev.ids[i] = <<t, new>>]_vars
    /\ [][\A p \in ProfileIds :
            (profiles[p].exists /\ profiles'[p].exists)
            => \A t \in Types :
                 profiles[p].ids[t] # None => profiles'[p].ids[t] = profiles[p].ids[t]]_vars

\* An event with another value for a type the profile holds, an entry with
\* an empty type and nothing else was persisted, and an event's identifier of
\* a new type was added.
C35_Witness ==
    /\ \E c \in Callers :
          /\ task[c].persisted
          /\ \E i \in 1..Len(task[c].ev.ids) : task[c].ev.ids[i] = <<"email", "b">>
          /\ \E i \in 1..Len(task[c].ev.ids) : task[c].ev.ids[i][1] = ""
          /\ profiles[task[c].pid].exists
          /\ profiles[task[c].pid].ids["email"] = "a"
    /\ \E c \in Callers :
          /\ task[c].persisted
          /\ profiles0[task[c].pid].ids["phone"] = None
          /\ profiles[task[c].pid].exists
          /\ profiles[task[c].pid].ids["phone"] = "b"

\* C36: the first update_profile on a profile as _create_profile inserted it,
\* with no other caller on the profile and no merge, returns after a single
\* write attempt and leaves the profile at version 1.
C36_FirstUpdateOfCreatedProfile ==
    \A c \in Callers :
        (/\ Finished(c)
         /\ profiles0[task[c].pid].exists
         /\ profiles0[task[c].pid].version = NoVersion
         /\ mg.pc = "idle"
         /\ \A d \in Callers \ {c} : task[d].pc = "idle" \/ task[d].pid # task[c].pid)
        => /\ task[c].pc = "returned"
           /\ task[c].attempt = 1
           /\ task[c].nwrites = 1
           /\ profiles[task[c].pid].version = 1

\* C37: a resolve that starts after the merge of a secondary into a primary
\* has completed, for an event with an identifier the secondary held, returns
\* the primary's profile_id and inserts no profile.
C37_ResolveAfterMergeFindsPrimary ==
    \A m \in MsgIds :
        (/\ MergeCompleted
         /\ task[m].via # ""
         /\ \E i \in 1..Len(task[m].ev.ids) :
               task[m].ev.ids[i] \in IdentifierPairs(profiles0[mg.sec]))
        => /\ task[m].pid = mg.pri
           /\ task[m].ninsert = 0

\* C38: when merge_consent completes by deleting the secondary's record, the
\* primary is not consented on any channel for which an update_consent to
\* False on the primary or the secondary has returned before, whatever the
\* interleaving of that call with the merge.
C38_RevocationSurvivesMerge ==
    [][\A m \in MergeIds :
         (mc[m].pc = "delete" /\ mc'[m].pc = "returned")
         => \A c \in ConsentCallers :
              (/\ cm[c].pc = "returned"
               /\ cm[c].value = "F"
               /\ cm[c].student \in {mc[m].primary, mc[m].secondary})
              => consents'[mc[m].primary].channels[cm[c].channel] # "T"]_vars

\* The audit entries of one student and channel, in insertion order.
AuditChain(student, channel) ==
    SelectSeq(consentAudit,
              LAMBDA e : e.student = student /\ e.channel = channel)

\* C39: once every update_consent call has returned and none has raised,
\* in the audit entries of each student and channel, in insertion order, the
\* first old_value is the value stored before any call (null for a student
\* without a record), every later old_value is the new_value of the entry
\* before it, and the last new_value is the stored consent.
C39_AuditChain ==
    (/\ \A c \in ConsentCallers : cm[c].pc \in {"idle", "returned"})
    => \A s \in Students, ch \in ChannelSet :
         LET log == AuditChain(s, ch)
         IN  /\ \A i \in 1..Len(log) :
                  log[i].old_value = IF i = 1 THEN InitialConsents[s].channels[ch]
                                     ELSE log[i - 1].new_value
             /\ Len(log) > 0 => log[Len(log)].new_value = consents[s].channels[ch]

\* C40: the document a returned update_profile call has written holds exactly
\* one of the four engagement segments, the one whose range contains the
\* score the call computed, for every score from 0 to 100.
C40_ExactlyOneSegment ==
    \A c \in Callers :
        task[c].pc = "returned"
        => LET d == task[c].cand
           IN  /\ d.score \in 0..10000
               /\ d.score = EngagementScore(d.total, task[c].ev.age)
               /\ Cardinality(d.segments \cap SegmentNames) = 1
               /\ \A n \in d.segments :
                      SegmentLow(n) <= d.score /\ d.score < SegmentHigh(n)

====
